---- MODULE Spec2Model ----
(***************************************************************************)
(* pyoscar: station report summarisation (get_station_report_summary),     *)
(* XPath extraction (get_xpath) and typed value coercion (get_typed_value) *)
(* of src/pyoscar/__init__.py.                                             *)
(*                                                                         *)
(* Python values are tagged records:                                       *)
(*   [t |-> "none"]                      None                              *)
(*   [t |-> "str",   v |-> <<c1,..,cn>>] a text, as its character sequence *)
(*                                       (in URLs and identifiers a run of *)
(*                                       characters without '/' and ','   *)
(*                                       is one symbol)                    *)
(*   [t |-> "int",   v |-> n]            an integer                        *)
(*   [t |-> "float", num |-> n, scale |-> k]   the float n / 10^k, k least *)
(*   [t |-> "dict",  v |-> f]            a mapping (function on its keys)  *)
(*   [t |-> "list",  v |-> <<..>>]       a list                            *)
(*   [t |-> "xml",   v |-> doc]          a parsed XML document             *)
(***************************************************************************)
EXTENDS Integers, Sequences, FiniteSets, TLC

VARIABLES
    tv_pc,       \* get_typed_value: "idle", "try", "return", "returned", "raised"
    tv_value,    \* get_typed_value: the argument `value`
    tv_branch,   \* get_typed_value: the branch of the if/elif/else that ran
    tv_value2,   \* get_typed_value: the local `value2`
    tv_error,    \* get_typed_value: the exception that escaped, if any
    pc,          \* get_station_report_summary: the statement to run next
    station,     \* get_station_report_summary: the argument `station`
    local,       \* get_station_report_summary: local variables set so far
    summary,     \* get_station_report_summary: the local dict `summary`
    result,      \* get_station_report_summary: the value handed to the caller
    error,       \* get_station_report_summary: the exception that escaped
    xp,          \* get_xpath: the document, the call in progress, the values returned
    calls,       \* completed get_station_report_summary calls: report and outcome
    rp,          \* OSCARClient.get_station_report: arguments, requests sent, outcome
    up,          \* OSCARClient.upload: arguments, requests sent, outcome
    lg,          \* pyoscar.oscar.OSCARClient.get_station_report: its frame
    hv,          \* OSCARClient.harvest_records: its frame
    ct,          \* OSCARClient.get_contact: its frame
    gs           \* OSCARClient.get_stations: its frame

tvars == <<tv_pc, tv_value, tv_branch, tv_value2, tv_error>>

svars == <<pc, station, local, summary, result, error>>

\* the frames of the other operations
evars == <<xp, calls, rp, up, lg, hv, ct, gs>>

vars == <<tvars, svars, evars>>

----------------------------------------------------------------------------
(* Bounds *)

\* longest text handed to get_typed_value
MaxLen == 4

\* most matches of a path in a document handed to get_xpath
MaxMatches == 3

----------------------------------------------------------------------------
(* Python values *)

None == [t |-> "none"]

StrV(s) == [t |-> "str", v |-> s]

IntV(n) == [t |-> "int", v |-> n]

NoError == [type |-> "none"]

\* characters texts are built from: digits, the decimal point, a sign,
\* a blank and a letter
Alphabet == {"0", "1", "7", ".", "-", " ", "a"}

Digits == {"0", "1", "2", "3", "4", "5", "6", "7", "8", "9"}

DigitVal(c) ==
    CASE c = "0" -> 0 [] c = "1" -> 1 [] c = "2" -> 2 [] c = "3" -> 3
      [] c = "4" -> 4 [] c = "5" -> 5 [] c = "6" -> 6 [] c = "7" -> 7
      [] c = "8" -> 8 [] c = "9" -> 9

Whitespace == {" "}

Texts(n) == UNION {[1..k -> Alphabet] : k \in 0..n}

Contains(s, c) == \E i \in 1..Len(s) : s[i] = c

\* str.startswith(c) for a one-character prefix
StartsWith(s, c) == Len(s) > 0 /\ s[1] = c

RECURSIVE LStrip(_)
LStrip(s) ==
    IF s # <<>> /\ s[1] \in Whitespace THEN LStrip(Tail(s)) ELSE s

RECURSIVE RStrip(_)
RStrip(s) ==
    IF s # <<>> /\ s[Len(s)] \in Whitespace
    THEN RStrip(SubSeq(s, 1, Len(s) - 1)) ELSE s

\* str.strip(), applied by int() and float() before parsing
Strip(s) == RStrip(LStrip(s))

AllDigits(s) == \A i \in 1..Len(s) : s[i] \in Digits

RECURSIVE DecVal(_)
DecVal(s) ==
    IF s = <<>> THEN 0
    ELSE 10 * DecVal(SubSeq(s, 1, Len(s) - 1)) + DigitVal(s[Len(s)])

RECURSIVE Pow10(_)
Pow10(k) == IF k = 0 THEN 1 ELSE 10 * Pow10(k - 1)

\* a float as the least (num, scale) with value num / 10^scale
RECURSIVE FloatV(_, _)
FloatV(num, scale) ==
    IF scale > 0 /\ num % 10 = 0 THEN FloatV(num \div 10, scale - 1)
    ELSE [t |-> "float", num |-> num, scale |-> scale]

ValueError == [ok |-> FALSE]

\* int(text): blanks stripped, an optional sign, then one or more digits;
\* anything else is a ValueError
PyInt(text) ==
    LET s    == Strip(text)
        neg  == StartsWith(s, "-")
        body == IF neg THEN Tail(s) ELSE s
    IN  IF body # <<>> /\ AllDigits(body)
        THEN [ok |-> TRUE, val |-> IntV(IF neg THEN 0 - DecVal(body) ELSE DecVal(body))]
        ELSE ValueError

\* float(text): blanks stripped, an optional sign, then digits with at most
\* one decimal point and at least one digit; anything else is a ValueError
PyFloat(text) ==
    LET s    == Strip(text)
        neg  == StartsWith(s, "-")
        body == IF neg THEN Tail(s) ELSE s
        dots == {i \in 1..Len(body) : body[i] = "."}
        dot  == IF dots = {} THEN Len(body) + 1 ELSE CHOOSE i \in dots : TRUE
        ip   == SubSeq(body, 1, dot - 1)
        fp   == SubSeq(body, dot + 1, Len(body))
        mag  == DecVal(ip) * Pow10(Len(fp)) + DecVal(fp)
    IN  IF Cardinality(dots) <= 1 /\ AllDigits(ip) /\ AllDigits(fp)
           /\ Len(ip) + Len(fp) > 0
        THEN [ok |-> TRUE, val |-> FloatV(IF neg THEN 0 - mag ELSE mag, Len(fp))]
        ELSE ValueError

\* the branch of get_typed_value's if/elif/else that a text takes
BranchSwapped(value) ==
    IF Len(value) > 1 /\ StartsWith(value, "0") THEN "keep"
    ELSE IF Contains(value, ".") THEN "float"
    ELSE "int"

Branch(value) ==
    IF Contains(value, ".") THEN "float"
    ELSE IF Len(value) > 1 /\ StartsWith(value, "0") THEN "keep"
    ELSE "int"

AttemptParseKeep(branch, value) ==
    CASE branch = "float" -> PyFloat(value)
      [] branch = "keep"  -> PyInt(value)
      [] branch = "int"   -> PyInt(value)

\* the parse the chosen branch attempts
Attempt(branch, value) ==
    CASE branch = "float" -> PyFloat(value)
      [] branch = "keep"  -> [ok |-> TRUE, val |-> StrV(value)]
      [] branch = "int"   -> PyInt(value)

\* the except clause of get_typed_value: ValueError gives the text back
OnValueErrorNone(value) == None

OnValueError(value) == StrV(value)

\* get_typed_value applied to a text
get_typed_value(value) ==
    LET r == Attempt(Branch(value), value)
    IN  IF r.ok THEN r.val ELSE OnValueError(value)

----------------------------------------------------------------------------
(* get_typed_value as a stepwise call *)

TypedInputs == {StrV(s) : s \in Texts(MaxLen)} \cup {None, IntV(5)}

TypedCall ==
    /\ tv_pc = "idle"
    /\ \E value \in TypedInputs : tv_value' = value
    /\ tv_pc' = "try"
    /\ UNCHANGED <<tv_branch, tv_value2, tv_error>>

\* the try block: `'.' in value` raises TypeError for an argument that is
\* not a text (not caught), a failed parse is caught and gives the text back
TypedTry ==
    /\ tv_pc = "try"
    /\ IF tv_value.t # "str"
       THEN /\ tv_pc' = "raised"
            /\ tv_error' = [type |-> "TypeError"]
            /\ UNCHANGED <<tv_branch, tv_value2>>
       ELSE /\ tv_branch' = Branch(tv_value.v)
            /\ tv_value2' = get_typed_value(tv_value.v)
            /\ tv_pc' = "return"
            /\ UNCHANGED tv_error
    /\ UNCHANGED tv_value

TypedReturn ==
    /\ tv_pc = "return"
    /\ tv_pc' = "returned"
    /\ UNCHANGED <<tv_value, tv_branch, tv_value2, tv_error>>

TypedInit ==
    /\ tv_pc = "idle"
    /\ tv_value = None
    /\ tv_branch = "none"
    /\ tv_value2 = None
    /\ tv_error = NoError

NextTyped ==
    \/ TypedCall /\ UNCHANGED <<svars, evars>>
    \/ TypedTry /\ UNCHANGED <<svars, evars>>
    \/ TypedReturn /\ UNCHANGED <<svars, evars>>

----------------------------------------------------------------------------
(* Texts of URLs and identifiers, lists, mappings *)

\* most whitespace-separated tokens in a generated gml:pos text
MaxTokens == 4

\* In the text of a URL or of an identifier a maximal run of characters
\* other than '/' and ',' is written as one symbol.

\* str.split(sep): the pieces between the separators, empty pieces kept
RECURSIVE SplitSep(_, _)
SplitSep(s, sep) ==
    IF ~Contains(s, sep) THEN <<s>>
    ELSE LET i == CHOOSE j \in 1..Len(s) :
                      s[j] = sep /\ \A k \in 1..(j - 1) : s[k] # sep
         IN  <<SubSeq(s, 1, i - 1)>> \o SplitSep(SubSeq(s, i + 1, Len(s)), sep)

\* str.split(): the maximal runs of non-blank characters
RECURSIVE SplitWs(_)
SplitWs(s) ==
    LET t == LStrip(s)
    IN  IF t = <<>> THEN <<>>
        ELSE LET blanks == {j \in 1..Len(t) : t[j] \in Whitespace}
                 e == IF blanks = {} THEN Len(t) + 1
                      ELSE CHOOSE j \in blanks : \A k \in blanks : j <= k
             IN  <<SubSeq(t, 1, e - 1)>> \o SplitWs(SubSeq(t, e, Len(t)))

\* `not x` for a value that is None or a text
Falsy(x) == x = None \/ x = StrV(<<>>)

EmptyDict == <<>>

\* d[k] = v on a dict under construction
SetItem(d, k, v) == (k :> v) @@ d

Raise(type, arg) == [type |-> type, arg |-> arg]

Ok(val) == [ok |-> TRUE, val |-> val]

Fail(type, arg) == [ok |-> FALSE, err |-> Raise(type, arg)]

\* x[k] for a mapping x: KeyError when the key is missing
GetItem(x, k) ==
    IF k \in DOMAIN x.v THEN Ok(x.v[k]) ELSE Fail("KeyError", StrV(<<k>>))

\* x[0] for a list x: IndexError when the list is empty
First(x) ==
    IF Len(x.v) > 0 THEN Ok(x.v[1]) ELSE Fail("IndexError", None)

\* dict.get(k): None when the key is missing
DictGet(x, k) == IF k \in DOMAIN x.v THEN x.v[k] ELSE None

----------------------------------------------------------------------------
(* FACILITY_TYPE_LOOKUP *)

FACILITY_TYPE_LOOKUP ==
    (<<"seaMobile">> :> <<"Sea (mobile)">>)
    @@ (<<"underwaterFixed">> :> <<"Underwater (fixed)">>)
    @@ (<<"underwaterMobile">> :> <<"Underwater (mobile)">>)
    @@ (<<"airMobile">> :> <<"Air (mobile)">>)
    @@ (<<"lakeRiverMobile">> :> <<"Lake/River (mobile)">>)
    @@ (<<"seaOnIce">> :> <<"Sea (on ice)">>)
    @@ (<<"landMobile">> :> <<"Land (mobile)">>)
    @@ (<<"landFixed">> :> <<"Land (fixed)">>)
    @@ (<<"lakeRiverFixed">> :> <<"Lake/River (fixed)">>)
    @@ (<<"seaFixed">> :> <<"Sea (fixed)">>)
    @@ (<<"airFixed">> :> <<"Air (fixed)">>)
    @@ (<<"landOnIce">> :> <<"Land (on ice)">>)

\* FACILITY_TYPE_LOOKUP[key]: KeyError(key) for anything that is not a key,
\* None included
LookupOrNone(key) ==
    IF key.t = "str" /\ key.v \in DOMAIN FACILITY_TYPE_LOOKUP
    THEN Ok(StrV(FACILITY_TYPE_LOOKUP[key.v]))
    ELSE Ok(None)

LookupRaw(key) ==
    IF key.t = "str" /\ key.v \in DOMAIN FACILITY_TYPE_LOOKUP
    THEN Ok(key)
    ELSE Fail("KeyError", key)

Lookup(key) ==
    IF key.t = "str" /\ key.v \in DOMAIN FACILITY_TYPE_LOOKUP
    THEN Ok(StrV(FACILITY_TYPE_LOOKUP[key.v]))
    ELSE Fail("KeyError", key)

----------------------------------------------------------------------------
(* get_xpath *)

\* XPath expressions used by get_station_report_summary
XP_NAME == "//wmdr:ObservingFacility/gml:name"

XP_IDENTIFIER == "//wmdr:ObservingFacility/gml:identifier"

XP_FACILITY_TYPE == "//wmdr:ObservingFacility//wmdr:facilityType/@xlink:href"

XP_WMO_REGION == "//wmdr:ObservingFacility//wmdr:wmoRegion/@xlink:href"

XP_TERRITORY_NAME == "//wmdr:ObservingFacility//wmdr:territoryName/@xlink:href"

XP_POS == "//wmdr:ObservingFacility//wmdr:geoLocation//gml:pos"

XP_BAROMETER == "//wmdr:Process//wmdr:Deployment//wmdr:Equipment[gml:identifier/@codeSpace=\"http://codes.wmo.int/wmdr/ObservedVariableAtmosphere/216\"]//wmdr:geoLocation//gml:pos"

\* a match of an attribute path is the attribute value (a str); a match
\* of an element path is the element node, whose text is None when empty
Attr(s) == StrV(s)

Elem(text) == [t |-> "element", text |-> text]

\* element.xpath(xpath): a document is given by the matches of each path
XPathEval(element, xpath) == element.v[xpath]

get_xpathLast(element, xpath, first) ==
    LET value == XPathEval(element, xpath)
    IN  IF ~first THEN [t |-> "list", v |-> value]
        ELSE IF Len(value) = 0 THEN None
        ELSE IF value[Len(value)].t = "str" THEN value[Len(value)]
        ELSE value[Len(value)].text

get_xpathUnwrapAll(element, xpath, first) ==
    LET value == XPathEval(element, xpath)
        text(n) == IF n.t = "str" THEN n ELSE n.text
    IN  IF ~first THEN [t |-> "list", v |-> [i \in 1..Len(value) |-> text(value[i])]]
        ELSE IF Len(value) = 0 THEN None
        ELSE text(value[1])

get_xpath(element, xpath, first) ==
    LET value == XPathEval(element, xpath)
    IN  IF ~first THEN [t |-> "list", v |-> value]
        ELSE IF Len(value) = 0 THEN None
        ELSE IF value[1].t = "str" THEN value[1]
        ELSE value[1].text

----------------------------------------------------------------------------
(* get_station_report_summary: the statements of the XML branch *)

Last(s) == s[Len(s)]

\* lines 277-280 (and 285-288, 293-296): None for a missing or empty
\* attribute, else the text after the last '/'
UrlTailFirst(v) ==
    IF Falsy(v) THEN None ELSE StrV(SplitSep(v.v, "/")[1])

UrlTail(v) ==
    IF Falsy(v) THEN None ELSE StrV(Last(SplitSep(v.v, "/")))

\* lines 271-272: get_xpath(...).split(',')[0]
WigosIdentifier(v) ==
    IF v = None THEN Fail("AttributeError", None)
    ELSE Ok(StrV(SplitSep(v.v, ",")[1]))

Step(s) == [ok |-> TRUE, summary |-> s]

Abort(s, type, arg) == [ok |-> FALSE, summary |-> s, err |-> Raise(type, arg)]

\* lines 298-302: the five assignments, in order; the table lookup of
\* line 300 raises KeyError after the first two were made
AssignFields(s, l) ==
    LET s1 == SetItem(s, "station_name", l["station_name"])
        s2 == SetItem(s1, "wigos_station_identifier", l["wigos_station_identifier"])
        ft == Lookup(l["facility_type"])
    IN  IF ~ft.ok THEN Abort(s2, ft.err.type, ft.err.arg)
        ELSE LET s3 == SetItem(s2, "facility_type", ft.val)
                 s4 == SetItem(s3, "wmo_region", l["wmo_region"])
             IN  Step(SetItem(s4, "territory_name", l["territory_name"]))

\* lines 307-312: None.split() raises AttributeError, geometry[0] and
\* geometry[1] raise IndexError when the token is not there
SetLatLonLenient(s, geometry) ==
    LET tokens == IF geometry = None THEN <<>> ELSE SplitWs(geometry.v)
        lat == IF Len(tokens) > 0 THEN get_typed_value(tokens[1]) ELSE None
        lon == IF Len(tokens) > 1 THEN get_typed_value(tokens[2]) ELSE None
    IN  Step(SetItem(SetItem(s, "latitude", lat), "longitude", lon))

SetLatLon(s, geometry) ==
    IF geometry = None THEN Abort(s, "AttributeError", None)
    ELSE LET tokens == SplitWs(geometry.v)
         IN  IF Len(tokens) = 0 THEN Abort(s, "IndexError", None)
             ELSE LET s1 == SetItem(s, "latitude", get_typed_value(tokens[1]))
                  IN  IF Len(tokens) = 1 THEN Abort(s1, "IndexError", None)
                      ELSE Step(SetItem(s1, "longitude", get_typed_value(tokens[2])))

\* lines 314-318: geometry is the token list here (or still None)
SetElevationNoElse(s, geometry) ==
    IF geometry # None /\ Len(geometry.v) = 3
    THEN SetItem(s, "elevation", get_typed_value(geometry.v[3]))
    ELSE s

SetElevationAtLeast3(s, geometry) ==
    IF geometry # None /\ Len(geometry.v) >= 3
    THEN SetItem(s, "elevation", get_typed_value(geometry.v[3]))
    ELSE SetItem(s, "elevation", None)

SetElevation(s, geometry) ==
    IF geometry # None /\ Len(geometry.v) = 3
    THEN SetItem(s, "elevation", get_typed_value(geometry.v[3]))
    ELSE SetItem(s, "elevation", None)

\* lines 322-327: split()[-1] raises IndexError for a blank text
SetBarometerFirst(s, barometer_height) ==
    IF barometer_height # None
    THEN LET tokens == SplitWs(barometer_height.v)
         IN  IF Len(tokens) = 0 THEN Abort(s, "IndexError", None)
             ELSE Step(SetItem(s, "barometer_height", get_typed_value(tokens[1])))
    ELSE Step(SetItem(s, "barometer_height", barometer_height))

SetBarometer(s, barometer_height) ==
    IF barometer_height # None
    THEN LET tokens == SplitWs(barometer_height.v)
         IN  IF Len(tokens) = 0 THEN Abort(s, "IndexError", None)
             ELSE Step(SetItem(s, "barometer_height", get_typed_value(Last(tokens))))
    ELSE Step(SetItem(s, "barometer_height", barometer_height))

----------------------------------------------------------------------------
(* get_station_report_summary: the assignments of the dict branch *)

\* station[k][0][k2]
Nested(x, k, k2) ==
    LET a == GetItem(x, k)
    IN  IF ~a.ok THEN a
        ELSE LET b == First(a.val)
             IN  IF ~b.ok THEN b ELSE GetItem(b.val, k2)

\* station['locations'][0].get('elevation')
NestedGet(x, k, k2) ==
    LET a == GetItem(x, k)
    IN  IF ~a.ok THEN a
        ELSE LET b == First(a.val)
             IN  IF ~b.ok THEN b ELSE Ok(DictGet(b.val, k2))

\* lines 257-265, in order: the key assigned and the expression assigned
JsonOrder ==
    <<"station_name", "wigos_station_identifier", "facility_type",
      "latitude", "longitude", "elevation", "barometer_height",
      "territory_name", "wmo_region">>

JsonValueSwapped(x, key) ==
    CASE key = "station_name" -> GetItem(x, "name")
      [] key = "wigos_station_identifier" -> Nested(x, "wigosIds", "wid")
      [] key = "facility_type" -> GetItem(x, "typeName")
      [] key = "latitude" -> Nested(x, "locations", "longitude")
      [] key = "longitude" -> Nested(x, "locations", "latitude")
      [] key = "elevation" -> NestedGet(x, "locations", "elevation")
      [] key = "barometer_height" -> Ok(None)
      [] key = "territory_name" -> Nested(x, "territories", "territoryName")
      [] key = "wmo_region" -> GetItem(x, "wmoRaId")

JsonValue(x, key) ==
    CASE key = "station_name" -> GetItem(x, "name")
      [] key = "wigos_station_identifier" -> Nested(x, "wigosIds", "wid")
      [] key = "facility_type" -> GetItem(x, "typeName")
      [] key = "latitude" -> Nested(x, "locations", "latitude")
      [] key = "longitude" -> Nested(x, "locations", "longitude")
      [] key = "elevation" -> NestedGet(x, "locations", "elevation")
      [] key = "barometer_height" -> Ok(None)
      [] key = "territory_name" -> Nested(x, "territories", "territoryName")
      [] key = "wmo_region" -> GetItem(x, "wmoRaId")

----------------------------------------------------------------------------
(* Station reports handed to get_station_report_summary *)

DigitChar(i) ==
    CASE i = 0 -> "0" [] i = 1 -> "1" [] i = 2 -> "2" [] i = 3 -> "3"
      [] i = 4 -> "4" [] i = 5 -> "5" [] i = 6 -> "6" [] i = 7 -> "7"
      [] i = 8 -> "8" [] i = 9 -> "9"

\* the i-th token of a position text: "i.5", "0i", "-i" or "ai"
Token(form, i) ==
    CASE form = "float" -> <<DigitChar(i % 10), ".", "5">>
      [] form = "zero"  -> <<"0", DigitChar(i % 10)>>
      [] form = "int"   -> <<"-", DigitChar(i % 10)>>
      [] form = "word"  -> <<"a", DigitChar(i % 10)>>

\* tokens from..from+n-1 separated by one blank, or (padded) by two blanks
\* with a blank before and after
RECURSIVE PosBody(_, _, _, _)
PosBody(form, from, n, gap) ==
    IF n = 0 THEN <<>>
    ELSE IF n = 1 THEN Token(form, from)
    ELSE Token(form, from) \o gap \o PosBody(form, from + 1, n - 1, gap)

PosText(form, from, n, padded) ==
    IF padded THEN <<" ">> \o PosBody(form, from, n, <<" ", " ">>) \o <<" ">>
    ELSE PosBody(form, from, n, <<" ">>)

\* gml:pos texts of the facility: blank, 1..MaxTokens tokens, leading-zero
\* tokens, padded, non-numeric tokens
PosTexts ==
    {<<" ">>}
    \cup {PosText("float", 1, n, FALSE) : n \in 1..MaxTokens}
    \cup {PosText("zero", 1, n, FALSE) : n \in 2..3}
    \cup {PosText("int", 1, 3, TRUE)}
    \cup {PosText("word", 1, 3, FALSE)}

\* gml:pos texts of the barometer equipment
BaroTexts ==
    {<<" ">>}
    \cup {PosText("float", 6, n, FALSE) : n \in 1..3}
    \cup {PosText("zero", 6, 2, FALSE)}
    \cup {PosText("word", 6, 2, FALSE)}

\* an element path matches nothing, an empty element, or an element with text
ElemMatches(texts) ==
    {<<>>, <<Elem(None)>>} \cup {<<Elem(StrV(s))>> : s \in texts}

NameMatches == {<<>>, <<Elem(StrV(<<"SYDNEY CS">>))>>}

IdentifierMatches ==
    {<<>>, <<Elem(StrV(<<"0-20000-0-71758", ",", "71758">>))>>}

UrlPrefixes == {<<>>, <<"http:", "/", "/", "codes.wmo.int", "/", "wmdr", "/">>}

\* final segments of a facility type URL: the 12 codes, an unknown code and
\* the empty segment
FacilityCodes == DOMAIN FACILITY_TYPE_LOOKUP \cup {<<"bogus">>, <<>>}

\* an attribute path matches nothing or one attribute value
AttrMatches(codes) ==
    {<<>>} \cup {<<Attr(p \o c)>> : p \in UrlPrefixes, c \in codes}

RegionCodes == {<<"northCentralAmericaCaribbean">>, <<>>}

TerritoryCodes == {<<"CAN">>, <<>>}

XmlStation(n, i, f, r, t, p, b) ==
    [t |-> "xml",
     v |-> (XP_NAME :> n) @@ (XP_IDENTIFIER :> i) @@ (XP_FACILITY_TYPE :> f)
           @@ (XP_WMO_REGION :> r) @@ (XP_TERRITORY_NAME :> t)
           @@ (XP_POS :> p) @@ (XP_BAROMETER :> b)]

Dict(f) == [t |-> "dict", v |-> f]

List(s) == [t |-> "list", v |-> s]

\* a complete JSON station report
JsonFull(typeName, location) ==
    ("name" :> StrV(<<"SYDNEY CS, NS">>))
    @@ ("wigosIds" :> List(<<Dict("wid" :> StrV(<<"0-20000-0-71758">>))>>))
    @@ ("typeName" :> StrV(typeName))
    @@ ("locations" :> List(<<Dict(location)>>))
    @@ ("territories" :> List(<<Dict("territoryName" :> StrV(<<"Canada">>))>>))
    @@ ("wmoRaId" :> StrV(<<"4">>))

JsonTypeNames == {<<"Land (fixed)">>, <<"Unknown">>}

JsonLocations ==
    LET ll == ("latitude" :> FloatV(4615, 2)) @@ ("longitude" :> FloatV(0 - 6005, 2))
    IN  {ll, ll @@ ("elevation" :> IntV(62))}

\* what is wrong with a report: nothing, a missing key, or an empty list
JsonDefects ==
    {"none", "no name", "no wigosIds", "no wigosIds[0]", "no locations[0]",
     "no territories[0]", "no wmoRaId"}

Without(f, k) == [x \in DOMAIN f \ {k} |-> f[x]]

JsonStation(typeName, location, defect) ==
    LET full == JsonFull(typeName, location)
    IN  Dict(CASE defect = "none" -> full
               [] defect = "no name" -> Without(full, "name")
               [] defect = "no wigosIds" -> Without(full, "wigosIds")
               [] defect = "no wigosIds[0]" -> ("wigosIds" :> List(<<>>)) @@ full
               [] defect = "no locations[0]" -> ("locations" :> List(<<>>)) @@ full
               [] defect = "no territories[0]" -> ("territories" :> List(<<>>)) @@ full
               [] defect = "no wmoRaId" -> Without(full, "wmoRaId"))

----------------------------------------------------------------------------
(* get_station_report_summary as a stepwise call *)

SummaryInit ==
    /\ pc = "idle"
    /\ station = None
    /\ local = EmptyDict
    /\ summary = EmptyDict
    /\ result = None
    /\ error = NoError

CallXml ==
    /\ pc = "idle"
    /\ \E n \in NameMatches, i \in IdentifierMatches,
          f \in AttrMatches(FacilityCodes), r \in AttrMatches(RegionCodes),
          t \in AttrMatches(TerritoryCodes), p \in ElemMatches(PosTexts),
          b \in ElemMatches(BaroTexts) :
            station' = XmlStation(n, i, f, r, t, p, b)
    /\ pc' = "dispatch"
    /\ summary' = EmptyDict
    /\ UNCHANGED <<local, result, error>>

CallJson ==
    /\ pc = "idle"
    /\ \E ty \in JsonTypeNames, l \in JsonLocations, d \in JsonDefects :
            station' = JsonStation(ty, l, d)
    /\ pc' = "dispatch"
    /\ summary' = EmptyDict
    /\ UNCHANGED <<local, result, error>>

\* line 256: isinstance(station, dict)
Dispatch ==
    /\ pc = "dispatch"
    /\ pc' = IF station.t = "dict" THEN "json" ELSE "xml_name"
    /\ UNCHANGED <<station, local, summary, result, error>>

JsonAssignPop ==
    /\ pc = "json"
    /\ LET key == JsonOrder[Cardinality(DOMAIN summary) + 1]
           r   == JsonValue(station, key)
       IN  /\ IF r.ok
              THEN /\ summary' = SetItem(summary, key, r.val)
                   /\ pc' = IF key = Last(JsonOrder) THEN "return" ELSE "json"
                   /\ UNCHANGED error
              ELSE /\ pc' = "raised"
                   /\ error' = r.err
                   /\ UNCHANGED summary
           /\ station' =
                 (IF key = "elevation" /\ r.ok
                  THEN Dict(("locations" :>
                                List(<<Dict(Without(station.v["locations"].v[1].v,
                                                    "elevation"))>>))
                            @@ station.v)
                  ELSE station)
    /\ UNCHANGED <<local, result>>

\* lines 257-265: the next assignment of the dict branch
JsonAssign ==
    /\ pc = "json"
    /\ LET key == JsonOrder[Cardinality(DOMAIN summary) + 1]
           r   == JsonValue(station, key)
       IN  IF r.ok
           THEN /\ summary' = SetItem(summary, key, r.val)
                /\ pc' = IF key = Last(JsonOrder) THEN "return" ELSE "json"
                /\ UNCHANGED error
           ELSE /\ pc' = "raised"
                /\ error' = r.err
                /\ UNCHANGED summary
    /\ UNCHANGED <<station, local, result>>

\* lines 268-269
XmlName ==
    /\ pc = "xml_name"
    /\ local' = SetItem(local, "station_name", get_xpath(station, XP_NAME, TRUE))
    /\ pc' = "xml_identifier"
    /\ UNCHANGED <<station, summary, result, error>>

\* lines 271-272
XmlIdentifier ==
    /\ pc = "xml_identifier"
    /\ LET r == WigosIdentifier(get_xpath(station, XP_IDENTIFIER, TRUE))
       IN  IF r.ok
           THEN /\ local' = SetItem(local, "wigos_station_identifier", r.val)
                /\ pc' = "xml_facility_type"
                /\ UNCHANGED error
           ELSE /\ pc' = "raised"
                /\ error' = r.err
                /\ UNCHANGED local
    /\ UNCHANGED <<station, summary, result>>

\* lines 274-280
XmlFacilityType ==
    /\ pc = "xml_facility_type"
    /\ local' = SetItem(local, "facility_type",
                        UrlTail(get_xpath(station, XP_FACILITY_TYPE, TRUE)))
    /\ pc' = "xml_wmo_region"
    /\ UNCHANGED <<station, summary, result, error>>

\* lines 282-288
XmlWmoRegion ==
    /\ pc = "xml_wmo_region"
    /\ local' = SetItem(local, "wmo_region",
                        UrlTail(get_xpath(station, XP_WMO_REGION, TRUE)))
    /\ pc' = "xml_territory_name"
    /\ UNCHANGED <<station, summary, result, error>>

\* lines 290-296
XmlTerritoryName ==
    /\ pc = "xml_territory_name"
    /\ local' = SetItem(local, "territory_name",
                        UrlTail(get_xpath(station, XP_TERRITORY_NAME, TRUE)))
    /\ pc' = "xml_assign"
    /\ UNCHANGED <<station, summary, result, error>>

XmlEffectSwallow(r, next) ==
    /\ summary' = r.summary
    /\ pc' = (IF r.ok THEN next ELSE "return")
    /\ UNCHANGED error

\* one statement group of the XML branch that updates summary or raises
XmlEffect(r, next) ==
    /\ summary' = r.summary
    /\ IF r.ok THEN pc' = next /\ UNCHANGED error
       ELSE pc' = "raised" /\ error' = r.err

\* lines 298-302
XmlAssign ==
    /\ pc = "xml_assign"
    /\ XmlEffect(AssignFields(summary, local), "xml_geometry")
    /\ UNCHANGED <<station, local, result>>

\* lines 304-312
XmlGeometry ==
    /\ pc = "xml_geometry"
    /\ LET geometry == get_xpath(station, XP_POS, TRUE)
       IN  /\ XmlEffect(SetLatLon(summary, geometry), "xml_elevation")
           /\ local' = SetItem(local, "geometry",
                               IF geometry = None THEN None
                               ELSE [t |-> "list", v |-> SplitWs(geometry.v)])
    /\ UNCHANGED <<station, result>>

\* lines 314-318
XmlElevation ==
    /\ pc = "xml_elevation"
    /\ summary' = SetElevation(summary, local["geometry"])
    /\ pc' = "xml_barometer"
    /\ UNCHANGED <<station, local, result, error>>

\* lines 320-327
XmlBarometer ==
    /\ pc = "xml_barometer"
    /\ LET barometer_height == get_xpath(station, XP_BAROMETER, TRUE)
       IN  /\ XmlEffect(SetBarometer(summary, barometer_height), "return")
           /\ local' = SetItem(local, "barometer_height", barometer_height)
    /\ UNCHANGED <<station, result>>

\* line 329
Return ==
    /\ pc = "return"
    /\ result' = [t |-> "dict", v |-> summary]
    /\ pc' = "returned"
    /\ UNCHANGED <<station, local, summary, error>>

----------------------------------------------------------------------------
(* get_xpath called on one document with first=True and first=False *)

Unset == [t |-> "unset"]

XP_ELEMENT == "//person/firstname"

XP_ATTRIBUTE == "//person/@department"

Lists(S, n) == UNION {[1..k -> S] : k \in 0..n}

\* documents: up to MaxMatches element matches (with or without text) of
\* the element path, or attribute matches of the attribute path
XPathDocs ==
    {[t |-> "xml", v |-> (XP_ELEMENT :> m)] :
        m \in Lists({Elem(None), Elem(StrV(<<"John">>)), Elem(StrV(<<"Bob">>))},
                    MaxMatches)}
    \cup
    {[t |-> "xml", v |-> (XP_ATTRIBUTE :> m)] :
        m \in Lists({Attr(<<>>), Attr(<<"monitoring">>), Attr(<<"prediction">>)},
                    MaxMatches)}

XPathInit ==
    xp = [pc |-> "idle", element |-> None, xpath |-> "", first |-> TRUE,
          value |-> <<>>, ret |-> [f \in BOOLEAN |-> Unset]]

\* etree.fromstring(data)
XPathParse ==
    /\ xp.pc = "idle"
    /\ \E d \in XPathDocs :
          xp' = [xp EXCEPT !.pc = "ready", !.element = d,
                           !.xpath = CHOOSE q \in DOMAIN d.v : TRUE]

\* get_xpath(element, xpath, first), once for each value of first
XPathCall ==
    /\ xp.pc = "ready"
    /\ \E first \in BOOLEAN :
          /\ xp.ret[first] = Unset
          /\ xp' = [xp EXCEPT !.pc = "xpath", !.first = first]

\* line 437
XPathEvaluate ==
    /\ xp.pc = "xpath"
    /\ xp' = [xp EXCEPT !.pc = "first", !.value = XPathEval(xp.element, xp.xpath)]

\* lines 439-441
XPathReturnAll ==
    /\ xp.pc = "first"
    /\ ~xp.first
    /\ xp' = [xp EXCEPT !.pc = "ready",
                        !.ret[FALSE] = get_xpath(xp.element, xp.xpath, FALSE)]

\* lines 445-447
XPathReturnNone ==
    /\ xp.pc = "first"
    /\ xp.first
    /\ Len(xp.value) = 0
    /\ xp' = [xp EXCEPT !.pc = "ready",
                        !.ret[TRUE] = get_xpath(xp.element, xp.xpath, TRUE)]

\* lines 449-455
XPathReturnFirst ==
    /\ xp.pc = "first"
    /\ xp.first
    /\ Len(xp.value) > 0
    /\ xp' = [xp EXCEPT !.pc = "ready",
                        !.ret[TRUE] = get_xpath(xp.element, xp.xpath, TRUE)]

----------------------------------------------------------------------------
(* get_station_report_summary called several times in a row *)

\* most calls made in a row
MaxCalls == 3

UrlPrefix == <<"http:", "/", "/", "codes.wmo.int", "/", "wmdr", "/">>

\* reports summarised more than once: complete and minimal XML documents,
\* XML documents that fail at line 300 and at line 310, JSON reports with
\* and without elevation, a JSON report without wmoRaId
PureStations ==
    LET name == <<Elem(StrV(<<"SYDNEY CS">>))>>
        id   == <<Elem(StrV(<<"0-20000-0-71758", ",", "71758">>))>>
        pos(text) == <<Elem(StrV(text))>>
        loc  == ("latitude" :> FloatV(4615, 2)) @@ ("longitude" :> FloatV(0 - 6005, 2))
    IN  {XmlStation(name, id, <<Attr(UrlPrefix \o <<"landFixed">>)>>,
                    <<Attr(UrlPrefix \o <<"northCentralAmericaCaribbean">>)>>,
                    <<Attr(UrlPrefix \o <<"CAN">>)>>,
                    pos(PosText("float", 1, 3, FALSE)),
                    pos(PosText("float", 6, 2, FALSE))),
         XmlStation(<<>>, id, <<Attr(<<"seaMobile">>)>>, <<>>, <<>>,
                    pos(PosText("zero", 1, 2, FALSE)), <<>>),
         XmlStation(name, id, <<Attr(UrlPrefix \o <<"bogus">>)>>, <<>>, <<>>,
                    pos(PosText("float", 1, 2, FALSE)), <<>>),
         XmlStation(name, id, <<Attr(<<"landFixed">>)>>, <<>>, <<>>, <<>>, <<>>),
         JsonStation(<<"Land (fixed)">>, loc @@ ("elevation" :> IntV(62)), "none"),
         JsonStation(<<"Unknown">>, loc, "none"),
         JsonStation(<<"Land (fixed)">>, loc, "no wmoRaId")}

PureInit == calls = <<>>

\* the caller hands a report to get_station_report_summary
CallPure ==
    /\ pc = "idle"
    /\ Len(calls) < MaxCalls
    /\ \E s \in PureStations :
          /\ station' = s
          /\ calls' = Append(calls, [report |-> s, after |-> Unset,
                                     result |-> Unset, error |-> NoError])
    /\ pc' = "dispatch"
    /\ local' = EmptyDict
    /\ summary' = EmptyDict
    /\ result' = None
    /\ error' = NoError

\* the call is over: the caller has the outcome and still holds the report,
\* the frame of the call is gone
Finish ==
    /\ pc \in {"returned", "raised"}
    /\ calls' = [calls EXCEPT ![Len(calls)] =
                    [report |-> @.report, after |-> station,
                     result |-> result, error |-> error]]
    /\ pc' = "idle"
    /\ local' = EmptyDict
    /\ summary' = EmptyDict
    /\ result' = None
    /\ error' = NoError
    /\ UNCHANGED station

----------------------------------------------------------------------------
(* OSCARClient.__init__ and OSCARClient.get_station_report *)

Envs == {"depl", "prod"}

\* lines 98-103
ApiUrl(env) ==
    IF env = "prod" THEN <<"https://oscar.wmo.int/surface/rest/api">>
    ELSE <<"https://oscardepl.wmo.int/surface/rest/api">>

HarvestUrl(env) ==
    IF env = "prod" THEN <<"https://oscar.wmo.int/oai/provider">>
    ELSE <<"https://oscardepl.wmo.int/oai/provider">>

WigosIds == {<<"0-20000-0-71758">>}

Formats == {"JSON", "XML"}

\* the decimal digits of a natural number
RECURSIVE Decimal(_)
Decimal(n) ==
    IF n < 10 THEN <<DigitChar(n)>> ELSE Decimal(n \div 10) \o <<DigitChar(n % 10)>>

\* str(x) of an integer or a string
PyStr(x) == IF x.t = "int" THEN StrV(Decimal(x.v)) ELSE x

\* a search result with a count and the internal ids of the stations
Found(n, ids) ==
    Dict(("totalCount" :> IntV(n))
         @@ ("stationSearchResults" :>
                List([i \in 1..Len(ids) |-> Dict("id" :> IntV(ids[i]))])))

\* a body that is not JSON, or not XML
NotParsable == [t |-> "garbage"]

\* bodies of the search response: null, {}, [], counts 0, 1 and 2, a count
\* without results, a mapping without totalCount, a body that is not JSON
SearchBodies ==
    {None, Dict(EmptyDict), List(<<>>), Found(0, <<>>), Found(1, <<7>>),
     Found(2, <<12, 7>>), Found(1, <<>>),
     Dict("message" :> StrV(<<"error">>)), NotParsable}

Statuses == {200, 404, 500}

\* bodies of the report response
ReportBodies(format) ==
    {s \in PureStations : s.t = (IF format = "XML" THEN "xml" ELSE "dict")}
    \cup {NotParsable}

\* 'not response'
NotResponse(response) ==
    \/ response = None
    \/ response.t = "dict" /\ DOMAIN response.v = {}
    \/ response.t = "list" /\ Len(response.v) = 0

NotFoundError(identifier) ==
    Fail("RuntimeError", StrV(<<"Station ">> \o identifier \o <<" not found">>))

FoundIdNoCount(identifier, response) ==
    IF NotResponse(response) THEN NotFoundError(identifier)
    ELSE LET id == Nested(response, "stationSearchResults", "id")
         IN  IF id.ok THEN Ok(PyStr(id.val)) ELSE id

\* lines 214-219: the internal id of the first search result
FoundId(identifier, response) ==
    IF NotResponse(response) THEN NotFoundError(identifier)
    ELSE LET count == GetItem(response, "totalCount")
         IN  IF ~count.ok THEN count
             ELSE IF count.val = IntV(0) THEN NotFoundError(identifier)
             ELSE LET id == Nested(response, "stationSearchResults", "id")
                  IN  IF id.ok THEN Ok(PyStr(id.val)) ELSE id

\* line 139
SearchUrl(env) == ApiUrl(env) \o <<"/", "search", "/", "station">>

ReportUrlSwapped(env, format, id) ==
    IF format # "XML"
    THEN ApiUrl(env) \o <<"/", "wmd", "/", "download", "/">> \o id.v
    ELSE ApiUrl(env) \o <<"/", "stations", "/", "station", "/">> \o id.v
            \o <<"/", "stationReport">>

\* lines 222-226
ReportUrl(env, format, id) ==
    IF format = "XML"
    THEN ApiUrl(env) \o <<"/", "wmd", "/", "download", "/">> \o id.v
    ELSE ApiUrl(env) \o <<"/", "stations", "/", "station", "/">> \o id.v
            \o <<"/", "stationReport">>

Get(url, params) == [method |-> "GET", url |-> url, params |-> params]

\* response.raise_for_status()
HTTPError(status) == status >= 400 /\ status < 600

ReportInit ==
    rp = [pc |-> "idle", env |-> "depl", identifier |-> <<>>, summary |-> FALSE,
          format |-> "JSON", response |-> Unset, id |-> Unset, requests |-> <<>>,
          status |-> 0, body |-> Unset, report |-> Unset, ret |-> Unset,
          error |-> NoError]

\* OSCARClient(env).get_station_report(identifier, summary, format_)
ReportCall ==
    /\ rp.pc = "idle"
    /\ \E env \in Envs, identifier \in WigosIds, flag \in BOOLEAN,
          format \in Formats :
          rp' = [rp EXCEPT !.pc = "search", !.env = env,
                           !.identifier = identifier, !.summary = flag,
                           !.format = format]
    /\ UNCHANGED svars

\* line 213: get_stations(wigos_id=identifier), lines 139-157
ReportSearch ==
    /\ rp.pc = "search"
    /\ \E body \in SearchBodies :
          LET sent == Append(rp.requests,
                             Get(SearchUrl(rp.env),
                                 "wigosId" :> StrV(rp.identifier)))
          IN  IF body = NotParsable
              THEN rp' = [rp EXCEPT !.pc = "raised", !.requests = sent,
                                    !.error = Raise("JSONDecodeError", None)]
              ELSE rp' = [rp EXCEPT !.pc = "check", !.requests = sent,
                                    !.response = body]
    /\ UNCHANGED svars

\* lines 214-219
ReportCheck ==
    /\ rp.pc = "check"
    /\ LET r == FoundId(rp.identifier, rp.response)
       IN  IF r.ok THEN rp' = [rp EXCEPT !.pc = "fetch", !.id = r.val]
           ELSE rp' = [rp EXCEPT !.pc = "raised", !.error = r.err]
    /\ UNCHANGED svars

\* lines 221-232
ReportFetch ==
    /\ rp.pc = "fetch"
    /\ \E status \in Statuses, body \in ReportBodies(rp.format) :
          LET sent == Append(rp.requests,
                             Get(ReportUrl(rp.env, rp.format, rp.id), EmptyDict))
          IN  IF HTTPError(status)
              THEN rp' = [rp EXCEPT !.pc = "raised", !.requests = sent,
                                    !.status = status,
                                    !.error = Raise("HTTPError", IntV(status))]
              ELSE rp' = [rp EXCEPT !.pc = "parse", !.requests = sent,
                                    !.status = status, !.body = body]
    /\ UNCHANGED svars

\* lines 234-237
ReportParse ==
    /\ rp.pc = "parse"
    /\ IF rp.body = NotParsable
       THEN rp' = [rp EXCEPT !.pc = "raised",
                             !.error = Raise(IF rp.format = "XML"
                                             THEN "XMLSyntaxError"
                                             ELSE "JSONDecodeError", None)]
       ELSE rp' = [rp EXCEPT !.pc = "parsed", !.report = rp.body]
    /\ UNCHANGED svars

\* lines 239-241: get_station_report_summary is entered with the report
ReportSummarise ==
    /\ rp.pc = "parsed"
    /\ rp.summary
    /\ pc = "idle"
    /\ rp' = [rp EXCEPT !.pc = "summary"]
    /\ station' = rp.report
    /\ pc' = "dispatch"
    /\ local' = EmptyDict
    /\ summary' = EmptyDict
    /\ result' = None
    /\ error' = NoError

\* line 241: what get_station_report_summary returned is returned, what it
\* raised propagates
ReportSummaryDone ==
    /\ rp.pc = "summary"
    /\ pc \in {"returned", "raised"}
    /\ IF pc = "returned"
       THEN rp' = [rp EXCEPT !.pc = "returned", !.ret = result]
       ELSE rp' = [rp EXCEPT !.pc = "raised", !.error = error]
    /\ UNCHANGED svars

\* lines 242-243
ReportReturn ==
    /\ rp.pc = "parsed"
    /\ ~rp.summary
    /\ rp' = [rp EXCEPT !.pc = "returned", !.ret = rp.report]
    /\ UNCHANGED svars

----------------------------------------------------------------------------
(* OSCARClient.upload *)

ApiTokens == {None, StrV(<<"secret">>)}

\* lines 92-94 and 105-106
Headers(api_token) ==
    IF api_token # None
    THEN ("User-Agent" :> StrV(<<"pyoscar: https://github.com/wmo-cop/pyoscar">>))
         @@ ("X-WMO-WMDR-Token" :> api_token)
    ELSE ("User-Agent" :> StrV(<<"pyoscar: https://github.com/wmo-cop/pyoscar">>))

\* str(only_use_gml_ids).upper()
UpperStr(b) == IF b THEN StrV(<<"TRUE">>) ELSE StrV(<<"FALSE">>)

\* an HTML page, by the texts of its elements with id='standardLayouterror'
Html(errors) == [t |-> "html", v |-> errors]

UploadStatuses == {200, 201, 401, 502}

\* response bodies: the JSON of a successful upload, error pages with one
\* and with two error elements, a page without such an element
UploadBodies ==
    {Dict(("id" :> IntV(67610)) @@ ("xmlStatus" :> StrV(<<"SUCCESS_WITH_WARNINGS">>))),
     Html(<<StrV(<<"Unauthorized">>)>>),
     Html(<<StrV(<<"Unauthorized">>), StrV(<<"Bad token">>)>>),
     Html(<<>>)}

\* soup.find_all(id='standardLayouterror'): a body that is not an HTML
\* page has no such element
FindAllErrors(body) == IF body.t = "html" THEN List(body.v) ELSE List(<<>>)

\* response.json()
ResponseJson(body) ==
    IF body.t \in {"html", "garbage"} THEN Fail("JSONDecodeError", None)
    ELSE Ok(body)

\* lines 404-414
UploadResult(status, body) ==
    IF status # 200
    THEN LET err == First(FindAllErrors(body))
         IN  IF ~err.ok THEN err
             ELSE Ok(Dict(("code" :> IntV(status)) @@ ("description" :> err.val)))
    ELSE ResponseJson(body)

UploadInit ==
    up = [pc |-> "idle", env |-> "depl", api_token |-> None,
          only_use_gml_ids |-> TRUE, xml_data |-> <<>>, requests |-> <<>>,
          status |-> 0, body |-> Unset, ret |-> Unset, error |-> NoError]

\* OSCARClient(env, api_token).upload(xml_data, only_use_gml_ids)
UploadCall ==
    /\ up.pc = "idle"
    /\ \E env \in Envs, token \in ApiTokens, flag \in BOOLEAN :
          up' = [up EXCEPT !.pc = "post", !.env = env, !.api_token = token,
                           !.only_use_gml_ids = flag, !.xml_data = <<"<foo/>">>]

\* lines 392-402
UploadPost ==
    /\ up.pc = "post"
    /\ \E status \in UploadStatuses, body \in UploadBodies :
          up' = [up EXCEPT
                    !.pc = "status",
                    !.requests = Append(@,
                        [method |-> "POST",
                         url |-> ApiUrl(up.env) \o <<"/", "wmd", "/", "upload">>,
                         headers |-> Headers(up.api_token),
                         data |-> up.xml_data,
                         params |-> ("useOnlyGmlIds" :>
                                        UpperStr(up.only_use_gml_ids))]),
                    !.status = status,
                    !.body = body]

\* lines 404-412
UploadError ==
    /\ up.pc = "status"
    /\ up.status # 200
    /\ LET r == UploadResult(up.status, up.body)
       IN  IF r.ok THEN up' = [up EXCEPT !.pc = "returned", !.ret = r.val]
           ELSE up' = [up EXCEPT !.pc = "raised", !.error = r.err]

\* line 414
UploadReturn ==
    /\ up.pc = "status"
    /\ up.status = 200
    /\ LET r == UploadResult(up.status, up.body)
       IN  IF r.ok THEN up' = [up EXCEPT !.pc = "returned", !.ret = r.val]
           ELSE up' = [up EXCEPT !.pc = "raised", !.error = r.err]

----------------------------------------------------------------------------
(* pyoscar.oscar.OSCARClient.get_station_report (legacy client) *)

\* most items in the identifier list
MaxItems == 3

\* oscar.py line 43
LegacyUrl == <<"https://oscar.wmo.int/surface/rest/api", "/">>

\* os.path.join of relative components
PathJoin(a, b) ==
    IF a = <<>> \/ Last(a) = "/" THEN a \o b ELSE a \o <<"/">> \o b

\* str.endswith
EndsWith(s, suffix) ==
    /\ Len(suffix) <= Len(s)
    /\ SubSeq(s, Len(s) - Len(suffix) + 1, Len(s)) = suffix

\* identifiers asked for, with and without '-', as characters
LegacyIdentifiers ==
    {<<"7">>, <<"1", "7">>, <<"0", "-", "7">>, <<"-", "7">>, <<"2">>}

\* texts of the listed identifiers
ItemTexts ==
    {<<"0", "-", "7">>, <<"0", "-", "1", "7">>, <<"1", "-", "7">>,
     <<"0", "-", "7", "1">>}

\* the item at position k of the list: its id is its position
Item(k, text) == Dict(("id" :> StrV(Decimal(k))) @@ ("text" :> StrV(text)))

\* bodies of the identifier list response: lists of up to MaxItems items,
\* and the empty mapping
ItemLists ==
    {List([k \in 1..Len(texts) |-> Item(k, texts[k])]) :
        texts \in Lists(ItemTexts, MaxItems)}
    \cup {Dict(EmptyDict)}

\* the items a for loop visits; the only mapping among the bodies is empty
Iterate(i) == IF i.t = "list" THEN i.v ELSE <<>>

\* the station report the server holds for an internal id
LegacyReport(id) ==
    Dict(("id" :> id) @@ ("name" :> StrV(<<"SYDNEY CS, NS">>)))

\* oscar.py lines 162-165
Identifier_(identifier) ==
    IF Contains(identifier, "-") THEN Last(SplitSep(identifier, "-"))
    ELSE identifier

ItemMatchesSuffix(identifier, identifier_, item) ==
    EndsWith(item.v["text"].v, identifier_)

\* oscar.py lines 187-194
ItemMatches(identifier, identifier_, item) ==
    IF Contains(identifier, "-") THEN item.v["text"] = StrV(identifier)
    ELSE EndsWith(item.v["text"].v, identifier_)

LegacyInit ==
    lg = [pc |-> "idle", identifier |-> <<>>, identifier_ |-> <<>>,
          found |-> FALSE, found_identifier |-> None, i |-> Unset, k |-> 0,
          requests |-> <<>>, ret |-> Unset]

\* oscar.py lines 153-174
LegacyCall ==
    /\ lg.pc = "idle"
    /\ \E identifier \in LegacyIdentifiers :
          lg' = [lg EXCEPT !.pc = "list", !.identifier = identifier,
                           !.identifier_ = Identifier_(identifier),
                           !.found = FALSE, !.found_identifier = None]

\* oscar.py lines 176-185
LegacyList ==
    /\ lg.pc = "list"
    /\ \E body \in ItemLists :
          lg' = [lg EXCEPT
                    !.pc = "loop",
                    !.requests = Append(@,
                        Get(PathJoin(LegacyUrl,
                                     <<"stations", "/", "approvedStations",
                                       "/", "wmoIds">>),
                            ("q" :> StrV(<<>>)) @@ ("page" :> IntV(1))
                            @@ ("pageSize" :> IntV(100000)))),
                    !.i = body,
                    !.k = 1]

\* oscar.py lines 186-194, one item
LegacyLoop ==
    /\ lg.pc = "loop"
    /\ lg.k <= Len(Iterate(lg.i))
    /\ LET item == Iterate(lg.i)[lg.k]
       IN  IF ItemMatches(lg.identifier, lg.identifier_, item)
           THEN lg' = [lg EXCEPT !.k = @ + 1, !.found = TRUE,
                                 !.found_identifier = item.v["id"]]
           ELSE lg' = [lg EXCEPT !.k = @ + 1]

\* oscar.py lines 196-205
LegacyFetch ==
    /\ lg.pc = "loop"
    /\ lg.k > Len(Iterate(lg.i))
    /\ lg.found
    /\ lg' = [lg EXCEPT
                 !.pc = "returned",
                 !.requests = Append(@,
                     Get(PathJoin(PathJoin(PathJoin(LegacyUrl,
                                                    <<"stations", "/", "station">>),
                                           lg.found_identifier.v),
                                  <<"stationReport">>),
                         EmptyDict)),
                 !.ret = LegacyReport(lg.found_identifier)]

\* oscar.py lines 206-208
LegacyNotFound ==
    /\ lg.pc = "loop"
    /\ lg.k > Len(Iterate(lg.i))
    /\ ~lg.found
    /\ lg' = [lg EXCEPT !.pc = "returned", !.ret = Dict(EmptyDict)]

----------------------------------------------------------------------------
(* OSCARClient.harvest_records *)

\* most records in one response
MaxRecords == 2

Date(y, m, d) == [year |-> y, month |-> m, day |-> d]

DatesFrom == {None, Date(2020, 1, 31), Date(2021, 12, 1)}

\* a number in at least n decimal digits, padded with zeros
RECURSIVE Pad(_, _)
Pad(digits, n) == IF Len(digits) >= n THEN digits ELSE Pad(<<"0">> \o digits, n)

\* date_from.strftime('%Y-%m-%d'), as characters
Strftime(d) ==
    Pad(Decimal(d.year), 4) \o <<"-">> \o Pad(Decimal(d.month), 2) \o <<"-">>
        \o Pad(Decimal(d.day), 2)

\* an OAI-PMH response: resumptionToken is Unset when the element is
\* missing, None when it is empty, else its text; records counts the records
Oai(token, n) == [t |-> "oai", resumptionToken |-> token, records |-> n]

HarvestBodies ==
    {Oai(token, n) : token \in {Unset, None, StrV(<<"t1">>), StrV(<<"t2">>)},
                     n \in 0..MaxRecords}
    \cup {NotParsable}

\* lines 350-358, as the parts of the request URL
HarvestRequestUrl(harvest_url, resumption_token, date_from) ==
    LET request == harvest_url \o <<"?verb=ListRecords">>
    IN  IF resumption_token # None
        THEN request \o <<"&resumptionToken=">> \o resumption_token.v
        ELSE IF date_from # None
        THEN request \o <<"&metadataPrefix=wmdr">> \o <<"&">> \o Strftime(date_from)
        ELSE request \o <<"&metadataPrefix=wmdr">>

\* etree.fromstring(response.text): an lxml.etree._Element
FromString(text) ==
    IF text = NotParsable THEN Fail("XMLSyntaxError", None)
    ELSE Ok([t |-> "_Element", v |-> text])

\* .getroot() on an lxml.etree._Element, which has no such attribute (it
\* is a method of _ElementTree)
GetRoot(x) ==
    IF x.t = "_ElementTree" THEN Ok(x.v)
    ELSE Fail("AttributeError", StrV(<<"getroot">>))

\* line 362
HarvestParsed(text) ==
    LET element == FromString(text)
    IN  IF ~element.ok THEN element ELSE GetRoot(element.val)

HarvestInit ==
    hv = [pc |-> "idle", env |-> "depl", api_token |-> None, date_from |-> None,
          stop_harvest |-> FALSE, resumption_token |-> None, requests |-> <<>>,
          responses |-> <<>>, batches |-> <<>>, error |-> NoError]

\* OSCARClient(env, api_token).harvest_records(date_from): the generator
\* is created, none of its body has run
HarvestCall ==
    /\ hv.pc = "idle"
    /\ \E env \in Envs, token \in ApiTokens, date_from \in DatesFrom :
          hv' = [hv EXCEPT !.pc = "created", !.env = env, !.api_token = token,
                           !.date_from = date_from]

\* the consumer asks for the first batch: lines 341-348
HarvestNext ==
    /\ hv.pc = "created"
    /\ hv' = [hv EXCEPT !.pc = "request", !.stop_harvest = FALSE,
                        !.resumption_token = None]

\* lines 349-360
HarvestRequest ==
    /\ hv.pc = "request"
    /\ ~hv.stop_harvest
    /\ \E body \in HarvestBodies :
          hv' = [hv EXCEPT
                    !.pc = "parse",
                    !.requests = Append(@,
                        [method |-> "GET",
                         url |-> HarvestRequestUrl(HarvestUrl(hv.env),
                                                   hv.resumption_token,
                                                   hv.date_from),
                         headers |-> Headers(hv.api_token)]),
                    !.responses = Append(@, body)]

\* line 362: the statement raises for every response, the generator ends
\* with the exception and the consumer gets it instead of a batch; lines
\* 363-379 are never reached
HarvestParse ==
    /\ hv.pc = "parse"
    /\ LET xml == HarvestParsed(Last(hv.responses))
       IN  /\ ~xml.ok
           /\ hv' = [hv EXCEPT !.pc = "raised", !.error = xml.err]

----------------------------------------------------------------------------
(* OSCARClient.get_contact *)

\* most contacts in the contact list
MaxContacts == 2

\* str.casefold() of the characters used in names here
CasefoldChar(c) ==
    CASE c = "A" -> "a" [] c = "C" -> "c" [] c = "E" -> "e" [] c = "L" -> "l"
      [] c = "M" -> "m" [] c = "S" -> "s"
      [] OTHER -> c

Casefold(text) == [i \in 1..Len(text) |-> CasefoldChar(text[i])]

\* the arguments: null or a text, in a case other than the contacts' fields
ContactCountries == {None, StrV(<<"C", "a">>)}

ContactSurnames == {None, StrV(<<"l", "e", "e">>)}

ContactOrganizations == {None, StrV(<<"M", "S", "C">>)}

\* contacts of the list: one matching all three arguments, one with the key
\* surnameName matching the country only, one matching the surname only,
\* one without the key organization
ContactPool ==
    {Dict(("id" :> IntV(1)) @@ ("countryName" :> StrV(<<"C", "A">>))
          @@ ("surname" :> StrV(<<"L", "e", "e">>))
          @@ ("organization" :> StrV(<<"m", "s", "c">>))),
     Dict(("id" :> IntV(2)) @@ ("countryName" :> StrV(<<"c", "a">>))
          @@ ("surnameName" :> StrV(<<"R", "o", "y">>))
          @@ ("organization" :> StrV(<<"W", "M", "O">>))),
     Dict(("id" :> IntV(3)) @@ ("countryName" :> StrV(<<"U", "S">>))
          @@ ("surname" :> StrV(<<"L", "E", "E">>))
          @@ ("organization" :> StrV(<<"N", "O", "A", "A">>))),
     Dict(("id" :> IntV(4)) @@ ("countryName" :> StrV(<<"F", "R">>))
          @@ ("surname" :> StrV(<<"R", "o", "y">>)))}

\* the contact the server holds for an id
ContactDetail(id) == Dict(("id" :> id) @@ ("email" :> StrV(<<"contact@wmo.int">>)))

\* c.get('surname', c.get('surnameName'))
SurnameField(c) ==
    IF "surname" \in DOMAIN c.v THEN Ok(c.v["surname"])
    ELSE Ok(DictGet(c, "surnameName"))

\* one if statement of lines 182-187: the ids it appends
Criterion(value, field, c) ==
    IF value = None THEN Ok(<<>>)
    ELSE IF ~field.ok THEN field
    ELSE IF field.val.t # "str" THEN Fail("AttributeError", StrV(<<"casefold">>))
    ELSE IF Casefold(value.v) = Casefold(field.val.v)
         THEN LET id == GetItem(c, "id")
              IN  IF id.ok THEN Ok(<<id.val>>) ELSE id
         ELSE Ok(<<>>)

ContactIdsOnce(country, surname, organization, c) ==
    LET a == Criterion(country, GetItem(c, "countryName"), c)
    IN  IF ~a.ok THEN a
        ELSE LET b == Criterion(surname, SurnameField(c), c)
             IN  IF ~b.ok THEN b
                 ELSE LET d == Criterion(organization, GetItem(c, "organization"), c)
                      IN  IF ~d.ok THEN d
                          ELSE IF a.val \o b.val \o d.val = <<>> THEN Ok(<<>>)
                          ELSE Ok(<<(a.val \o b.val \o d.val)[1]>>)

\* lines 182-187 for one contact: the ids appended, or the exception
ContactIds(country, surname, organization, c) ==
    LET a == Criterion(country, GetItem(c, "countryName"), c)
    IN  IF ~a.ok THEN a
        ELSE LET b == Criterion(surname, SurnameField(c), c)
             IN  IF ~b.ok THEN b
                 ELSE LET d == Criterion(organization, GetItem(c, "organization"), c)
                      IN  IF ~d.ok THEN d
                          ELSE Ok(a.val \o b.val \o d.val)

ContactsUrl(env) == ApiUrl(env) \o <<"/", "contacts">>

ContactUrl(env, id) ==
    ApiUrl(env) \o <<"/", "contacts", "/", "contact", "/">> \o PyStr(id).v

ContactInit ==
    ct = [pc |-> "idle", env |-> "depl", country |-> None, surname |-> None,
          organization |-> None, contacts |-> <<>>, k |-> 0, ids |-> <<>>,
          j |-> 0, requests |-> <<>>, matches |-> <<>>, ret |-> Unset,
          error |-> NoError]

\* OSCARClient(env).get_contact(country, surname, organization), lines
\* 159-172
ContactCall ==
    /\ ct.pc = "idle"
    /\ \E env \in Envs, country \in ContactCountries,
          surname \in ContactSurnames, organization \in ContactOrganizations :
          ct' = [ct EXCEPT !.pc = "list", !.env = env, !.country = country,
                           !.surname = surname, !.organization = organization,
                           !.ids = <<>>, !.matches = <<>>]

\* lines 176-181
ContactList ==
    /\ ct.pc = "list"
    /\ \E body \in Lists(ContactPool, MaxContacts) :
          ct' = [ct EXCEPT !.pc = "select",
                           !.requests = Append(@, Get(ContactsUrl(ct.env), EmptyDict)),
                           !.contacts = body,
                           !.k = 1]

\* lines 181-187, one contact
ContactSelect ==
    /\ ct.pc = "select"
    /\ ct.k <= Len(ct.contacts)
    /\ LET r == ContactIds(ct.country, ct.surname, ct.organization,
                           ct.contacts[ct.k])
       IN  IF r.ok THEN ct' = [ct EXCEPT !.k = @ + 1, !.ids = @ \o r.val]
           ELSE ct' = [ct EXCEPT !.pc = "raised", !.error = r.err]

\* the first loop is over
ContactSelected ==
    /\ ct.pc = "select"
    /\ ct.k > Len(ct.contacts)
    /\ ct' = [ct EXCEPT !.pc = "fetch", !.j = 1]

\* lines 189-195, one id
ContactFetch ==
    /\ ct.pc = "fetch"
    /\ ct.j <= Len(ct.ids)
    /\ ct' = [ct EXCEPT
                 !.j = @ + 1,
                 !.requests = Append(@, Get(ContactUrl(ct.env, ct.ids[ct.j]),
                                            EmptyDict)),
                 !.matches = Append(@, ContactDetail(ct.ids[ct.j]))]

\* line 197
ContactReturn ==
    /\ ct.pc = "fetch"
    /\ ct.j > Len(ct.ids)
    /\ ct' = [ct EXCEPT !.pc = "returned", !.ret = List(ct.matches)]

----------------------------------------------------------------------------
(* OSCARClient.get_stations *)

Programs == {None, StrV(<<"GBON">>)}

StationCountries == {None, StrV(<<"CAN">>)}

\* station types: none, two keys of the table, a label of the table, a
\* name that is neither
StationTypes ==
    {None, StrV(<<"landFixed">>), StrV(<<"seaOnIce">>), StrV(<<"Land (fixed)">>),
     StrV(<<"bogus">>)}

StationWigosIds == {None} \cup {StrV(id) : id \in WigosIds}

\* params[k] = v, when the argument is given
SetParam(params, k, v) == IF v # None THEN SetItem(params, k, v) ELSE params

StationsParamsMerged(program, country, station_type, wigos_id) ==
    LET facility == IF station_type # None THEN Lookup(station_type) ELSE Ok(None)
    IN  IF ~facility.ok THEN facility
        ELSE Ok(SetParam(SetParam(SetParam(SetParam(EmptyDict,
                                                    "wigosId", wigos_id),
                                           "programAffiliation", program),
                                  "territoryName", country),
                         "facilityType", facility.val))

\* lines 143-153: the query parameters, or the KeyError of line 153
StationsParams(program, country, station_type, wigos_id) ==
    IF wigos_id # None THEN Ok(SetItem(EmptyDict, "wigosId", wigos_id))
    ELSE LET facility == IF station_type # None THEN Lookup(station_type)
                         ELSE Ok(None)
         IN  IF ~facility.ok THEN facility
             ELSE Ok(SetParam(SetParam(SetParam(EmptyDict,
                                                "programAffiliation", program),
                                       "territoryName", country),
                              "facilityType", facility.val))

StationsInit ==
    gs = [pc |-> "idle", env |-> "depl", program |-> None, country |-> None,
          station_type |-> None, wigos_id |-> None, params |-> Unset,
          requests |-> <<>>, ret |-> Unset, error |-> NoError]

\* OSCARClient(env).get_stations(program, country, station_type, wigos_id),
\* lines 108-141
StationsCall ==
    /\ gs.pc = "idle"
    /\ \E env \in Envs, program \in Programs, country \in StationCountries,
          station_type \in StationTypes, wigos_id \in StationWigosIds :
          gs' = [gs EXCEPT !.pc = "params", !.env = env, !.program = program,
                           !.country = country, !.station_type = station_type,
                           !.wigos_id = wigos_id]

\* lines 143-153
StationsBuild ==
    /\ gs.pc = "params"
    /\ LET r == StationsParams(gs.program, gs.country, gs.station_type,
                               gs.wigos_id)
       IN  IF r.ok THEN gs' = [gs EXCEPT !.pc = "request", !.params = r.val]
           ELSE gs' = [gs EXCEPT !.pc = "raised", !.error = r.err]

\* lines 155-157
StationsRequest ==
    /\ gs.pc = "request"
    /\ \E body \in SearchBodies :
          LET sent == Append(gs.requests, Get(SearchUrl(gs.env), gs.params))
              json == ResponseJson(body)
          IN  IF json.ok
              THEN gs' = [gs EXCEPT !.pc = "returned", !.requests = sent,
                                    !.ret = json.val]
              ELSE gs' = [gs EXCEPT !.pc = "raised", !.requests = sent,
                                    !.error = json.err]

Init ==
    /\ TypedInit
    /\ SummaryInit
    /\ XPathInit
    /\ PureInit
    /\ ReportInit
    /\ UploadInit
    /\ LegacyInit
    /\ HarvestInit
    /\ ContactInit
    /\ StationsInit

Next ==
    \/ CallXml /\ UNCHANGED <<tvars, evars>>
    \/ CallJson /\ UNCHANGED <<tvars, evars>>
    \/ Dispatch /\ UNCHANGED <<tvars, evars>>
    \/ JsonAssign /\ UNCHANGED <<tvars, evars>>
    \/ XmlName /\ UNCHANGED <<tvars, evars>>
    \/ XmlIdentifier /\ UNCHANGED <<tvars, evars>>
    \/ XmlFacilityType /\ UNCHANGED <<tvars, evars>>
    \/ XmlWmoRegion /\ UNCHANGED <<tvars, evars>>
    \/ XmlTerritoryName /\ UNCHANGED <<tvars, evars>>
    \/ XmlAssign /\ UNCHANGED <<tvars, evars>>
    \/ XmlGeometry /\ UNCHANGED <<tvars, evars>>
    \/ XmlElevation /\ UNCHANGED <<tvars, evars>>
    \/ XmlBarometer /\ UNCHANGED <<tvars, evars>>
    \/ Return /\ UNCHANGED <<tvars, evars>>

Spec == Init /\ [][Next]_vars

SpecTyped == Init /\ [][NextTyped]_vars

NextXPath ==
    \/ XPathParse /\ UNCHANGED <<tvars, svars, calls, rp, up, lg, hv, ct, gs>>
    \/ XPathCall /\ UNCHANGED <<tvars, svars, calls, rp, up, lg, hv, ct, gs>>
    \/ XPathEvaluate /\ UNCHANGED <<tvars, svars, calls, rp, up, lg, hv, ct, gs>>
    \/ XPathReturnAll /\ UNCHANGED <<tvars, svars, calls, rp, up, lg, hv, ct, gs>>
    \/ XPathReturnNone /\ UNCHANGED <<tvars, svars, calls, rp, up, lg, hv, ct, gs>>
    \/ XPathReturnFirst /\ UNCHANGED <<tvars, svars, calls, rp, up, lg, hv, ct, gs>>

SpecXPath == Init /\ [][NextXPath]_vars

NextPure ==
    \/ CallPure /\ UNCHANGED <<tvars, xp, rp, up, lg, hv, ct, gs>>
    \/ Finish /\ UNCHANGED <<tvars, xp, rp, up, lg, hv, ct, gs>>
    \/ Dispatch /\ UNCHANGED <<tvars, evars>>
    \/ JsonAssign /\ UNCHANGED <<tvars, evars>>
    \/ XmlName /\ UNCHANGED <<tvars, evars>>
    \/ XmlIdentifier /\ UNCHANGED <<tvars, evars>>
    \/ XmlFacilityType /\ UNCHANGED <<tvars, evars>>
    \/ XmlWmoRegion /\ UNCHANGED <<tvars, evars>>
    \/ XmlTerritoryName /\ UNCHANGED <<tvars, evars>>
    \/ XmlAssign /\ UNCHANGED <<tvars, evars>>
    \/ XmlGeometry /\ UNCHANGED <<tvars, evars>>
    \/ XmlElevation /\ UNCHANGED <<tvars, evars>>
    \/ XmlBarometer /\ UNCHANGED <<tvars, evars>>
    \/ Return /\ UNCHANGED <<tvars, evars>>

SpecPure == Init /\ [][NextPure]_vars

NextReport ==
    \/ ReportCall /\ UNCHANGED <<tvars, xp, calls, up, lg, hv, ct, gs>>
    \/ ReportSearch /\ UNCHANGED <<tvars, xp, calls, up, lg, hv, ct, gs>>
    \/ ReportCheck /\ UNCHANGED <<tvars, xp, calls, up, lg, hv, ct, gs>>
    \/ ReportFetch /\ UNCHANGED <<tvars, xp, calls, up, lg, hv, ct, gs>>
    \/ ReportParse /\ UNCHANGED <<tvars, xp, calls, up, lg, hv, ct, gs>>
    \/ ReportSummarise /\ UNCHANGED <<tvars, xp, calls, up, lg, hv, ct, gs>>
    \/ ReportSummaryDone /\ UNCHANGED <<tvars, xp, calls, up, lg, hv, ct, gs>>
    \/ ReportReturn /\ UNCHANGED <<tvars, xp, calls, up, lg, hv, ct, gs>>
    \/ Dispatch /\ UNCHANGED <<tvars, evars>>
    \/ JsonAssign /\ UNCHANGED <<tvars, evars>>
    \/ XmlName /\ UNCHANGED <<tvars, evars>>
    \/ XmlIdentifier /\ UNCHANGED <<tvars, evars>>
    \/ XmlFacilityType /\ UNCHANGED <<tvars, evars>>
    \/ XmlWmoRegion /\ UNCHANGED <<tvars, evars>>
    \/ XmlTerritoryName /\ UNCHANGED <<tvars, evars>>
    \/ XmlAssign /\ UNCHANGED <<tvars, evars>>
    \/ XmlGeometry /\ UNCHANGED <<tvars, evars>>
    \/ XmlElevation /\ UNCHANGED <<tvars, evars>>
    \/ XmlBarometer /\ UNCHANGED <<tvars, evars>>
    \/ Return /\ UNCHANGED <<tvars, evars>>

SpecReport == Init /\ [][NextReport]_vars

NextUpload ==
    \/ UploadCall /\ UNCHANGED <<tvars, svars, xp, calls, rp, lg, hv, ct, gs>>
    \/ UploadPost /\ UNCHANGED <<tvars, svars, xp, calls, rp, lg, hv, ct, gs>>
    \/ UploadError /\ UNCHANGED <<tvars, svars, xp, calls, rp, lg, hv, ct, gs>>
    \/ UploadReturn /\ UNCHANGED <<tvars, svars, xp, calls, rp, lg, hv, ct, gs>>

SpecUpload == Init /\ [][NextUpload]_vars

NextLegacy ==
    \/ LegacyCall /\ UNCHANGED <<tvars, svars, xp, calls, rp, up, hv, ct, gs>>
    \/ LegacyList /\ UNCHANGED <<tvars, svars, xp, calls, rp, up, hv, ct, gs>>
    \/ LegacyLoop /\ UNCHANGED <<tvars, svars, xp, calls, rp, up, hv, ct, gs>>
    \/ LegacyFetch /\ UNCHANGED <<tvars, svars, xp, calls, rp, up, hv, ct, gs>>
    \/ LegacyNotFound /\ UNCHANGED <<tvars, svars, xp, calls, rp, up, hv, ct, gs>>

SpecLegacy == Init /\ [][NextLegacy]_vars

NextHarvest ==
    \/ HarvestCall /\ UNCHANGED <<tvars, svars, xp, calls, rp, up, lg, ct, gs>>
    \/ HarvestNext /\ UNCHANGED <<tvars, svars, xp, calls, rp, up, lg, ct, gs>>
    \/ HarvestRequest /\ UNCHANGED <<tvars, svars, xp, calls, rp, up, lg, ct, gs>>
    \/ HarvestParse /\ UNCHANGED <<tvars, svars, xp, calls, rp, up, lg, ct, gs>>

SpecHarvest == Init /\ [][NextHarvest]_vars

NextContact ==
    \/ ContactCall /\ UNCHANGED <<tvars, svars, xp, calls, rp, up, lg, hv, gs>>
    \/ ContactList /\ UNCHANGED <<tvars, svars, xp, calls, rp, up, lg, hv, gs>>
    \/ ContactSelect /\ UNCHANGED <<tvars, svars, xp, calls, rp, up, lg, hv, gs>>
    \/ ContactSelected /\ UNCHANGED <<tvars, svars, xp, calls, rp, up, lg, hv, gs>>
    \/ ContactFetch /\ UNCHANGED <<tvars, svars, xp, calls, rp, up, lg, hv, gs>>
    \/ ContactReturn /\ UNCHANGED <<tvars, svars, xp, calls, rp, up, lg, hv, gs>>

SpecContact == Init /\ [][NextContact]_vars

NextStations ==
    \/ StationsCall /\ UNCHANGED <<tvars, svars, xp, calls, rp, up, lg, hv, ct>>
    \/ StationsBuild /\ UNCHANGED <<tvars, svars, xp, calls, rp, up, lg, hv, ct>>
    \/ StationsRequest /\ UNCHANGED <<tvars, svars, xp, calls, rp, up, lg, hv, ct>>

SpecStations == Init /\ [][NextStations]_vars

----------------------------------------------------------------------------
(* Claims about get_station_report_summary *)

SummaryKeys ==
    {"station_name", "wigos_station_identifier", "facility_type", "latitude",
     "longitude", "elevation", "barometer_height", "territory_name",
     "wmo_region"}

IsXml == station.t = "xml"

IsJson == station.t = "dict"

Ended == pc \in {"returned", "raised"}

\* the matches of a path in the XML report
Matches(xpath) == XPathEval(station, xpath)

\* the value a token of a generated position text stands for
TokenValue(form, i) ==
    CASE form = "float" -> [t |-> "float", num |-> 10 * (i % 10) + 5, scale |-> 1]
      [] form = "zero"  -> StrV(<<"0", DigitChar(i % 10)>>)
      [] form = "int"   -> IntV(0 - (i % 10))
      [] form = "word"  -> StrV(<<"a", DigitChar(i % 10)>>)

Forms == {"float", "zero", "int", "word"}

\* line 300 ran: the two assignments before it were made
LookupRan == IsXml /\ "wigos_station_identifier" \in DOMAIN summary

\* C1: a successful get_station_report_summary, for a JSON mapping or a WMDR
\* XML document, returns a record whose key set is exactly the nine summary
\* keys, whichever optional inputs are absent.
C1_SummaryFieldSet ==
    (pc \in {"return", "returned"} => DOMAIN summary = SummaryKeys)
    /\ (pc = "returned" => result.t = "dict" /\ DOMAIN result.v = SummaryKeys)

\* an XML report without region, territory, elevation and barometer was
\* summarised
C1_Witness ==
    /\ pc = "returned"
    /\ IsXml
    /\ Matches(XP_WMO_REGION) = <<>>
    /\ Matches(XP_TERRITORY_NAME) = <<>>
    /\ Matches(XP_BAROMETER) = <<>>
    /\ Matches(XP_POS) = <<Elem(StrV(PosText("float", 1, 2, FALSE)))>>
    /\ DOMAIN result.v = SummaryKeys

\* C2: in the XML form, when the facility has no facility-type reference
\* attribute, get_station_report_summary does not raise (no lookup failure)
\* and the summary it returns has facility_type null.
C2_AbsentFacilityTypeIsNull ==
    (Ended /\ IsXml /\ Matches(XP_FACILITY_TYPE) = <<>>) =>
        /\ error.type # "KeyError"
        /\ pc = "returned" => result.v["facility_type"] = None

\* the final '/'-separated segment of the facility-type attribute, written
\* out for the generated URLs
FacilityCodeIs(c) ==
    \E p \in UrlPrefixes : Matches(XP_FACILITY_TYPE) = <<Attr(p \o c)>>

UnknownCodes == FacilityCodes \ DOMAIN FACILITY_TYPE_LOOKUP

BadPosition ==
    \/ Matches(XP_POS) = <<>>
    \/ Matches(XP_POS)[1].text = None
    \/ Len(SplitWs(Matches(XP_POS)[1].text.v)) < 2

\* C4: in the XML form, a facility without a position (or with fewer than
\* two tokens in it) ends in a failure surfaced to the caller; no summary
\* with latitude or longitude missing or null is ever returned.
C4_MissingPositionFails ==
    /\ (IsXml /\ BadPosition) =>
          /\ pc \notin {"xml_elevation", "xml_barometer", "return", "returned"}
          /\ result = None
          /\ pc = "raised" => error # NoError
    /\ (IsXml /\ pc = "returned") =>
          /\ {"latitude", "longitude"} \subseteq DOMAIN result.v
          /\ result.v["latitude"] # None
          /\ result.v["longitude"] # None

\* the position was missing when lines 304-312 ran, and the call raised
C4_Witness ==
    /\ pc = "raised"
    /\ IsXml
    /\ Matches(XP_POS) = <<>>
    /\ "facility_type" \in DOMAIN summary
    /\ error.type = "AttributeError"
    /\ result = None

\* C5: in the XML form, for a position of n >= 2 tokens: latitude is the
\* typed value of token 0, longitude of token 1, and elevation of token 2
\* if and only if n is exactly 3; for every other n elevation is null.
C5_PositionTokens ==
    (IsXml /\ pc = "returned") =>
        /\ ~BadPosition
        /\ \A form \in Forms, n \in 2..(MaxTokens + 1), padded \in BOOLEAN :
              Matches(XP_POS) = <<Elem(StrV(PosText(form, 1, n, padded)))>> =>
                  /\ result.v["latitude"] = TokenValue(form, 1)
                  /\ result.v["longitude"] = TokenValue(form, 2)
                  /\ result.v["elevation"] =
                        (IF n = 3 THEN TokenValue(form, 3) ELSE None)

\* a position of four tokens was summarised with a null elevation
C5_Witness ==
    /\ pc = "returned"
    /\ IsXml
    /\ Matches(XP_POS) = <<Elem(StrV(PosText("float", 1, 4, FALSE)))>>
    /\ result.v["latitude"] = FloatV(15, 1)
    /\ result.v["longitude"] = FloatV(25, 1)
    /\ result.v["elevation"] = None

\* C6: barometer_height is non-null only for an XML report with the
\* barometer equipment position; then it is the typed value of the last
\* token of that position, for 2 as for 3 tokens. Without that element it is
\* null, and for the JSON form it is always null.
C6_BarometerHeight ==
    (pc = "returned") =>
        /\ IsJson => result.v["barometer_height"] = None
        /\ (IsXml /\ Matches(XP_BAROMETER) = <<>>) =>
              result.v["barometer_height"] = None
        /\ result.v["barometer_height"] # None =>
              /\ IsXml
              /\ Matches(XP_BAROMETER) # <<>>
              /\ Matches(XP_BAROMETER)[1].text # None
        /\ \A form \in Forms, n \in 1..(MaxTokens + 1) :
              (IsXml /\ Matches(XP_BAROMETER) = <<Elem(StrV(PosText(form, 6, n, FALSE)))>>) =>
                  result.v["barometer_height"] = TokenValue(form, 6 + n - 1)

\* a barometer position of three tokens gave the third as the height
C6_Witness ==
    /\ pc = "returned"
    /\ IsXml
    /\ Matches(XP_BAROMETER) = <<Elem(StrV(PosText("float", 6, 3, FALSE)))>>
    /\ result.v["barometer_height"] = FloatV(85, 1)

\* the value of a URL-tail field read from an attribute path, as the claim
\* has it: null without the attribute, else the final '/'-separated segment
TailAsClaimed(xpath, codes, field) ==
    /\ Matches(xpath) = <<>> => result.v[field] = None
    /\ \A p \in UrlPrefixes, c \in codes :
          Matches(xpath) = <<Attr(p \o c)>> => result.v[field] = StrV(c)

\* the same, with an empty attribute value giving null like a missing one
TailUnlessEmpty(xpath, codes, field) ==
    /\ Matches(xpath) = <<>> => result.v[field] = None
    /\ \A p \in UrlPrefixes, c \in codes :
          Matches(xpath) = <<Attr(p \o c)>> =>
              result.v[field] = (IF p \o c = <<>> THEN None ELSE StrV(c))

\* C7 (as stated): in the XML form an absent WMO-region or territory-name
\* attribute gives null without raising and the other fields are still
\* extracted; a present one gives the final '/'-separated segment of its
\* value, with no table lookup.
C7_RegionTerritoryTail ==
    (IsXml /\ pc = "returned") =>
        /\ TailAsClaimed(XP_WMO_REGION, RegionCodes, "wmo_region")
        /\ TailAsClaimed(XP_TERRITORY_NAME, TerritoryCodes, "territory_name")

\* C7 (amended): as stated, except that an attribute whose value is the
\* empty text gives null, like a missing attribute.
C7_RegionTerritoryTailUnlessEmpty ==
    (IsXml /\ pc = "returned") =>
        /\ TailUnlessEmpty(XP_WMO_REGION, RegionCodes, "wmo_region")
        /\ TailUnlessEmpty(XP_TERRITORY_NAME, TerritoryCodes, "territory_name")
        /\ DOMAIN result.v = SummaryKeys

\* a report without the region attribute and with a territory URL was
\* summarised: region null, territory the URL's last segment
C7_Witness ==
    /\ pc = "returned"
    /\ IsXml
    /\ Matches(XP_WMO_REGION) = <<>>
    /\ \E p \in UrlPrefixes : p # <<>> /\ Matches(XP_TERRITORY_NAME) = <<Attr(p \o <<"CAN">>)>>
    /\ result.v["wmo_region"] = None
    /\ result.v["territory_name"] = StrV(<<"CAN">>)
    /\ result.v["latitude"] # None

\* C8: in the XML form, for every key k of FACILITY_TYPE_LOOKUP, a
\* facility-type attribute whose final segment is k gives facility_type =
\* FACILITY_TYPE_LOOKUP[k] (landFixed gives "Land (fixed)"), whatever the
\* URL prefix before the last '/'.
C8_FacilityTypeLabel ==
    (IsXml /\ pc = "returned") =>
        /\ \A k \in DOMAIN FACILITY_TYPE_LOOKUP :
              FacilityCodeIs(k) =>
                  result.v["facility_type"] = StrV(FACILITY_TYPE_LOOKUP[k])
        /\ FacilityCodeIs(<<"landFixed">>) =>
              result.v["facility_type"] = StrV(<<"Land (fixed)">>)
        /\ \E k \in DOMAIN FACILITY_TYPE_LOOKUP : FacilityCodeIs(k)

\* landFixed behind a URL prefix was summarised as "Land (fixed)"
C8_Witness ==
    /\ pc = "returned"
    /\ IsXml
    /\ \E p \in UrlPrefixes : p # <<>> /\ Matches(XP_FACILITY_TYPE) = <<Attr(p \o <<"landFixed">>)>>
    /\ result.v["facility_type"] = StrV(<<"Land (fixed)">>)

----------------------------------------------------------------------------
(* Claims about get_typed_value *)

TypedDone == tv_pc \in {"return", "returned", "raised"}

\* the parse that ran on the text failed (int() or float() raised ValueError)
TypedParseFailed ==
    \/ tv_branch = "float" /\ ~PyFloat(tv_value.v).ok
    \/ tv_branch = "int" /\ ~PyInt(tv_value.v).ok

\* C9: get_typed_value is total on texts: for every text it returns an
\* integer, a float or a text and never raises, and whenever the parse it
\* attempted fails the returned value is the original text unchanged.
C9_CoercionTotal ==
    (TypedDone /\ tv_value.t = "str") =>
        /\ tv_pc # "raised"
        /\ tv_error = NoError
        /\ tv_value2.t \in {"int", "float", "str"}
        /\ TypedParseFailed => tv_value2 = tv_value

\* a text with two decimal points was tried as a float, failed, and came
\* back unchanged
C9_Witness ==
    /\ tv_pc = "returned"
    /\ tv_value = StrV(<<"1", ".", "7", ".">>)
    /\ TypedParseFailed
    /\ tv_value2 = tv_value

\* C10: get_typed_value applies its rules in a fixed order: a text with a
\* '.' is only ever tried as a float; otherwise a text longer than one
\* character that starts with '0' is returned unchanged with no integer
\* parse; otherwise an integer parse is tried. "0" gives the integer 0 and
\* "007" the text "007".
C10_RuleOrder ==
    (tv_pc \in {"return", "returned"}) =>
        LET text == tv_value.v
            dot  == Contains(text, ".")
            lead == Len(text) > 1 /\ text[1] = "0"
        IN  /\ dot => tv_branch = "float" /\ tv_value2.t # "int"
            /\ (~dot /\ lead) => tv_branch = "keep" /\ tv_value2 = tv_value
            /\ (~dot /\ ~lead) =>
                  /\ tv_branch = "int"
                  /\ tv_value2 = (IF PyInt(text).ok THEN PyInt(text).val
                                  ELSE tv_value)
            /\ text = <<"0">> => tv_value2 = IntV(0)
            /\ text = <<"0", "0", "7">> => tv_value2 = StrV(<<"0", "0", "7">>)
            /\ text = <<"0", ".", "7">> => tv_value2 = FloatV(7, 1)

\* "007" was returned as the text "007" through the leading-zero branch
C10_Witness ==
    /\ tv_pc = "returned"
    /\ tv_value = StrV(<<"0", "0", "7">>)
    /\ tv_branch = "keep"
    /\ tv_value2 = StrV(<<"0", "0", "7">>)

\* both calls of get_xpath on the parsed document have returned
XPathBoth == xp.pc = "ready" /\ xp.ret[FALSE] # Unset /\ xp.ret[TRUE] # Unset

\* the N matches of the path in the document
XPathMatches == xp.element.v[xp.xpath]

\* C11 (as stated): for a path with N matches get_xpath with first = false
\* returns a list of length N, and with first = true it returns the same
\* value as element 0 of that list when N > 0 and null when N = 0.
C11_FirstIsElementZero ==
    XPathBoth =>
        /\ xp.ret[FALSE].t = "list"
        /\ Len(xp.ret[FALSE].v) = Len(XPathMatches)
        /\ xp.ret[TRUE] = (IF Len(XPathMatches) > 0 THEN xp.ret[FALSE].v[1]
                           ELSE None)

\* C11 (amended): for a path with N matches get_xpath with first = false
\* returns a list of length N; with first = true it returns null when
\* N = 0, element 0 of that list when the path selects attributes, and the
\* text of element 0 of that list when the path selects elements.
C11_FirstIsElementZeroOrItsText ==
    XPathBoth =>
        /\ xp.ret[FALSE].t = "list"
        /\ Len(xp.ret[FALSE].v) = Len(XPathMatches)
        /\ Len(XPathMatches) = 0 => xp.ret[TRUE] = None
        /\ (Len(XPathMatches) > 0 /\ xp.xpath = XP_ATTRIBUTE) =>
              xp.ret[TRUE] = xp.ret[FALSE].v[1]
        /\ (Len(XPathMatches) > 0 /\ xp.xpath = XP_ELEMENT) =>
              xp.ret[TRUE] = xp.ret[FALSE].v[1].text

\* an element path with two matches gave a list of two element nodes and,
\* with first = true, the text of the first
C11_Witness ==
    /\ XPathBoth
    /\ xp.xpath = XP_ELEMENT
    /\ xp.ret[FALSE].v = <<Elem(StrV(<<"John">>)), Elem(StrV(<<"Bob">>))>>
    /\ xp.ret[TRUE] = StrV(<<"John">>)

\* C12 (as stated): with first = true and at least one match get_xpath
\* returns a plain string, the attribute value itself for an attribute path
\* and the text content of the first element for an element path; with
\* first = false it returns the matches as they are.
C12_FirstIsPlainString ==
    XPathBoth =>
        /\ xp.ret[FALSE].v = XPathMatches
        /\ Len(XPathMatches) > 0 =>
              /\ xp.ret[TRUE].t = "str"
              /\ xp.xpath = XP_ATTRIBUTE => xp.ret[TRUE] = XPathMatches[1]
              /\ xp.xpath = XP_ELEMENT => xp.ret[TRUE] = XPathMatches[1].text

\* C12 (amended): as stated, except that the result is null, not a string,
\* when the first matching element has no text content.
C12_FirstIsPlainStringOrNull ==
    XPathBoth =>
        /\ xp.ret[FALSE].v = XPathMatches
        /\ Len(XPathMatches) > 0 =>
              /\ xp.ret[TRUE].t = "str" \/ XPathMatches[1] = Elem(None)
              /\ XPathMatches[1] = Elem(None) => xp.ret[TRUE] = None
              /\ xp.xpath = XP_ATTRIBUTE => xp.ret[TRUE] = XPathMatches[1]
              /\ xp.xpath = XP_ELEMENT => xp.ret[TRUE] = XPathMatches[1].text

\* an attribute path with two matches gave the first attribute value as a
\* string, and the list of both with first = false
C12_Witness ==
    /\ XPathBoth
    /\ xp.xpath = XP_ATTRIBUTE
    /\ xp.ret[TRUE] = StrV(<<"monitoring">>)
    /\ xp.ret[FALSE].v = <<Attr(<<"monitoring">>), Attr(<<"prediction">>)>>

\* C13: for a JSON report get_station_report_summary copies the fields
\* without lookup or coercion: name, wigosIds[0].wid, typeName unchanged
\* (label of FACILITY_TYPE_LOOKUP or not), locations[0].latitude and
\* .longitude, territories[0].territoryName, wmoRaId, and
\* locations[0].elevation when that key is present, else null.
C13_JsonFieldsCopied ==
    (IsJson /\ pc = "returned") =>
        \E ty \in JsonTypeNames, hasElevation \in BOOLEAN :
            /\ station.v["typeName"] = StrV(ty)
            /\ hasElevation = ("elevation" \in DOMAIN station.v["locations"].v[1].v)
            /\ result.v["station_name"] = StrV(<<"SYDNEY CS, NS">>)
            /\ result.v["wigos_station_identifier"] = StrV(<<"0-20000-0-71758">>)
            /\ result.v["facility_type"] = StrV(ty)
            /\ result.v["latitude"] = FloatV(4615, 2)
            /\ result.v["longitude"] = FloatV(0 - 6005, 2)
            /\ result.v["elevation"] = (IF hasElevation THEN IntV(62) ELSE None)
            /\ result.v["territory_name"] = StrV(<<"Canada">>)
            /\ result.v["wmo_region"] = StrV(<<"4">>)

\* a JSON report of type "Unknown" without elevation was summarised
C13_Witness ==
    /\ pc = "returned"
    /\ IsJson
    /\ "elevation" \notin DOMAIN station.v["locations"].v[1].v
    /\ result.v["facility_type"] = StrV(<<"Unknown">>)
    /\ result.v["elevation"] = None
    /\ result.v["latitude"] = FloatV(4615, 2)

\* C14: get_station_report_summary either returns a complete summary of
\* nine fields or fails with no value returned; a failure after some fields
\* were computed never hands a partially filled summary to the caller.
C14_AllOrNothing ==
    /\ result # None =>
          /\ pc = "returned"
          /\ error = NoError
          /\ result.t = "dict"
          /\ DOMAIN result.v = SummaryKeys
    /\ pc = "raised" => result = None /\ error # NoError
    /\ pc = "returned" => result # None

\* the call failed after some but not all fields were assigned, and the
\* caller got no value
C14_Witness ==
    /\ pc = "raised"
    /\ DOMAIN summary # {}
    /\ DOMAIN summary # SummaryKeys
    /\ result = None

\* the calls that have finished
Finished == {i \in 1..Len(calls) : calls[i].after # Unset}

IsNumber(v) == v.t \in {"int", "float"}

\* C16: in every summary returned for the XML form latitude and longitude
\* are numbers and elevation and barometer_height are numbers or null;
\* none of the four is ever a string, whatever the position tokens are.
C16_NumericFields ==
    (IsXml /\ pc = "returned") =>
        /\ IsNumber(result.v["latitude"])
        /\ IsNumber(result.v["longitude"])
        /\ IsNumber(result.v["elevation"]) \/ result.v["elevation"] = None
        /\ IsNumber(result.v["barometer_height"])
              \/ result.v["barometer_height"] = None

\* the search found nothing: its result is empty, or its totalCount is 0
SearchFoundNothing ==
    /\ rp.response # Unset
    /\ \/ rp.response = None
       \/ rp.response.t = "dict" /\ DOMAIN rp.response.v = {}
       \/ rp.response.t = "list" /\ rp.response.v = <<>>
       \/ /\ rp.response.t = "dict"
          /\ "totalCount" \in DOMAIN rp.response.v
          /\ rp.response.v["totalCount"] = IntV(0)

\* C17: when the station search returns an empty result or a result with
\* totalCount = 0, OSCARClient.get_station_report raises RuntimeError
\* 'Station <identifier> not found'; no report or download request is
\* issued and no value is returned, for either format, with or without
\* summary.
C17_NotFoundRaises ==
    SearchFoundNothing =>
        /\ rp.pc \in {"check", "raised"}
        /\ Len(rp.requests) = 1
        /\ rp.requests[1].url = SearchUrl(rp.env)
        /\ rp.ret = Unset
        /\ pc = "idle"
        /\ rp.pc = "raised" =>
              rp.error = Raise("RuntimeError",
                               StrV(<<"Station ">> \o rp.identifier
                                    \o <<" not found">>))

\* a search with totalCount 0 made the XML summary call raise RuntimeError
\* after the one search request
C17_Witness ==
    /\ rp.pc = "raised"
    /\ rp.response = Found(0, <<>>)
    /\ rp.format = "XML"
    /\ rp.summary
    /\ rp.error.type = "RuntimeError"
    /\ Len(rp.requests) = 1

\* C18: OSCARClient.upload issues exactly one POST and always returns a
\* mapping: the JSON body of the response when its status is 200, and for
\* any other status {code: status, description: error text of the HTML
\* body}, as a value and without raising.
C18_UploadAlwaysReturns ==
    /\ up.pc \in {"status", "returned", "raised"} =>
          Len(up.requests) = 1 /\ up.requests[1].method = "POST"
    /\ (up.pc \in {"returned", "raised"} /\ up.status = 200
           /\ up.body.t = "dict") =>
          up.pc = "returned" /\ up.ret = up.body
    /\ (up.pc \in {"returned", "raised"} /\ up.status # 200) =>
          /\ up.pc = "returned"
          /\ up.ret.t = "dict"
          /\ DOMAIN up.ret.v = {"code", "description"}
          /\ up.ret.v["code"] = IntV(up.status)

\* the positions of the listed items that match the identifier asked for:
\* by equality of the text when the identifier has a '-', else by the text
\* ending with the identifier
LegacyMatching ==
    {k \in 1..Len(Iterate(lg.i)) :
        LET text == Iterate(lg.i)[k].v["text"].v
        IN  IF \E j \in 1..Len(lg.identifier) : lg.identifier[j] = "-"
            THEN text = lg.identifier
            ELSE \E n \in 0..Len(text) :
                    SubSeq(text, n + 1, Len(text)) = lg.identifier}

\* C19: the legacy get_station_report returns an empty mapping after the
\* identifier-list request alone when no listed identifier matches; an
\* identifier with '-' matches by equality with an item's text only, one
\* without '-' matches every item whose text ends with it, and of several
\* matching items the report of the last is fetched.
C19_LegacyLastMatch ==
    lg.pc = "returned" =>
        /\ LegacyMatching = {} =>
              /\ lg.ret = Dict(EmptyDict)
              /\ Len(lg.requests) = 1
        /\ LegacyMatching # {} =>
              LET last == CHOOSE k \in LegacyMatching :
                              \A j \in LegacyMatching : j <= k
                  id   == Iterate(lg.i)[last].v["id"]
              IN  /\ Len(lg.requests) = 2
                  /\ lg.requests[2].url =
                        LegacyUrl \o <<"stations", "/", "station", "/">> \o id.v
                           \o <<"/", "stationReport">>
                  /\ lg.ret = LegacyReport(id)
        /\ lg.requests[1].url =
              LegacyUrl \o <<"stations", "/", "approvedStations", "/", "wmoIds">>

\* "7" was asked for, the first and the third of three items end with it
\* and the second does not, and the report of the third was fetched
C19_Witness ==
    /\ lg.pc = "returned"
    /\ lg.identifier = <<"7">>
    /\ LegacyMatching = {1, 3}
    /\ Len(lg.requests) = 2
    /\ lg.ret = LegacyReport(StrV(<<"3">>))

\* C20: harvest_records follows the paging protocol: the first request
\* carries metadataPrefix=wmdr and no resumptionToken; every later request
\* carries the token text of the response before it and neither
\* metadataPrefix nor a date; one batch is yielded per response, in order,
\* the last response included; a request is issued only after the batch
\* before it was yielded.
C20_PagingProtocol ==
    /\ Len(hv.requests) >= 1 =>
          /\ Contains(hv.requests[1].url, "&metadataPrefix=wmdr")
          /\ ~Contains(hv.requests[1].url, "&resumptionToken=")
    /\ \A k \in 2..Len(hv.requests) :
          hv.requests[k].url =
              HarvestUrl(hv.env) \o <<"?verb=ListRecords", "&resumptionToken=">>
                  \o hv.responses[k - 1].resumptionToken.v
    /\ Len(hv.requests) <= Len(hv.batches) + 1
    /\ Len(hv.batches) <= Len(hv.responses)
    /\ hv.pc \in {"suspended", "finished", "raised"} =>
          Len(hv.batches) = Len(hv.responses)

\* the generator has ended, normally or with an exception
HarvestEnded == hv.pc \in {"finished", "raised"}

\* the response received last is an OAI-PMH document
LastIsOai == Len(hv.responses) >= 1 /\ Last(hv.responses).t = "oai"

\* C21: harvest_records terminates exactly when a response without a
\* resumptionToken element is received: the batch of that response is still
\* yielded, the generator then finishes, and no request follows such a
\* response; it does not end after a response that has the element.
C21_EndsOnMissingToken ==
    /\ (HarvestEnded /\ LastIsOai) =>
          /\ Last(hv.responses).resumptionToken = Unset
          /\ hv.pc = "finished"
          /\ Len(hv.batches) = Len(hv.responses)
    /\ \A k \in 1..(Len(hv.responses) - 1) :
          hv.responses[k].t = "oai" => hv.responses[k].resumptionToken # Unset

\* C22: a response whose resumptionToken element is present with empty
\* text does not stop the harvest: once it is handled the generator has
\* not ended, the stored token is null and stop_harvest is unset, so that
\* the next request is the initial one again.
C22_EmptyTokenRestarts ==
    (LastIsOai /\ Last(hv.responses).resumptionToken = None /\ hv.pc # "parse") =>
        /\ ~HarvestEnded
        /\ hv.resumption_token = None
        /\ ~hv.stop_harvest
        /\ Len(hv.batches) = Len(hv.responses)

\* the arguments of get_contact that a contact's own field equals when
\* case is ignored
MatchedCriteria(c) ==
    {f \in {"country", "surname", "organization"} :
        /\ ct[f] # None
        /\ LET key == CASE f = "country" -> "countryName"
                        [] f = "surname" ->
                              IF "surname" \in DOMAIN c.v THEN "surname"
                              ELSE "surnameName"
                        [] f = "organization" -> "organization"
           IN  Casefold(c.v[key].v) = Casefold(ct[f].v)}

\* each contact's id, once for each argument the contact matches, in
\* contact-list order
RECURSIVE ExpectedIds(_)
ExpectedIds(contacts) ==
    IF contacts = <<>> THEN <<>>
    ELSE [i \in 1..Cardinality(MatchedCriteria(Head(contacts))) |->
             Head(contacts).v["id"]]
         \o ExpectedIds(Tail(contacts))

\* C23: get_contact issues one list request and then one detail request for
\* each (contact, criterion) match, in contact-list order: a contact is
\* selected when any non-null argument among country, surname, organization
\* equals its field with case ignored, a contact matching k arguments is
\* fetched and returned k times, and with all three arguments null the
\* result is empty and no detail request is issued.
C23_ContactMatches ==
    ct.pc = "returned" =>
        LET ids == ExpectedIds(ct.contacts)
        IN  /\ Len(ct.ret.v) = Len(ids)
            /\ Len(ct.requests) = 1 + Len(ids)
            /\ ct.requests[1].url = ContactsUrl(ct.env)
            /\ \A n \in 1..Len(ids) :
                  /\ ct.requests[1 + n].url =
                        ContactsUrl(ct.env) \o <<"/", "contact", "/">>
                           \o Decimal(ids[n].v)
                  /\ ct.ret.v[n] = ContactDetail(ids[n])
            /\ (ct.country = None /\ ct.surname = None /\ ct.organization = None)
                  => ct.ret.v = <<>> /\ Len(ct.requests) = 1

\* with all three arguments given, a list of the contact matching the
\* country only followed by the contact matching all three gave four
\* contacts, the second one three times, after five requests
C23_Witness ==
    /\ ct.pc = "returned"
    /\ ct.country # None /\ ct.surname # None /\ ct.organization # None
    /\ Len(ct.contacts) = 2
    /\ ct.contacts[1].v["id"] = IntV(2)
    /\ ct.contacts[2].v["id"] = IntV(1)
    /\ ct.ret.v = <<ContactDetail(IntV(2)), ContactDetail(IntV(1)),
                    ContactDetail(IntV(1)), ContactDetail(IntV(1))>>
    /\ Len(ct.requests) = 5

\* the query parameters of get_stations were built
StationsBuilt == gs.params # Unset

\* the filters that are given, as parameter names
GivenFilters ==
    {k \in {"programAffiliation", "territoryName", "facilityType"} :
        CASE k = "programAffiliation" -> gs.program # None
          [] k = "territoryName" -> gs.country # None
          [] k = "facilityType" -> gs.station_type # None}

\* C24: in get_stations the WIGOS identifier is exclusive: when wigos_id is
\* not null the query parameters are exactly {wigosId} and the other
\* filters are ignored; when it is null each non-null filter gives exactly
\* its own parameter, facilityType being FACILITY_TYPE_LOOKUP[station_type],
\* and a station_type outside the 12 keys of the table fails before any
\* request is sent.
C24_WigosIdExclusive ==
    /\ Cardinality(DOMAIN FACILITY_TYPE_LOOKUP) = 12
    /\ (StationsBuilt /\ gs.wigos_id # None) =>
          /\ DOMAIN gs.params = {"wigosId"}
          /\ gs.params["wigosId"] = gs.wigos_id
    /\ (StationsBuilt /\ gs.wigos_id = None) =>
          /\ DOMAIN gs.params = GivenFilters
          /\ gs.program # None => gs.params["programAffiliation"] = gs.program
          /\ gs.country # None => gs.params["territoryName"] = gs.country
          /\ gs.station_type # None =>
                gs.params["facilityType"] =
                    StrV(FACILITY_TYPE_LOOKUP[gs.station_type.v])
    /\ \A n \in 1..Len(gs.requests) : gs.requests[n].params = gs.params
    /\ (gs.pc \notin {"idle", "params"} /\ gs.wigos_id = None
           /\ gs.station_type # None
           /\ gs.station_type.v \notin DOMAIN FACILITY_TYPE_LOOKUP) =>
          /\ gs.pc = "raised"
          /\ gs.error = Raise("KeyError", gs.station_type)
          /\ gs.requests = <<>>
    /\ gs.pc = "returned" => Len(gs.requests) = 1

\* a call with a WIGOS identifier and all three other filters sent the one
\* parameter wigosId and returned
C24_Witness ==
    /\ gs.pc = "returned"
    /\ gs.wigos_id # None
    /\ gs.program # None
    /\ gs.country # None
    /\ gs.station_type = StrV(<<"bogus">>)
    /\ DOMAIN gs.requests[1].params = {"wigosId"}

\* the internal id of the first result of the station search, as digits
FirstResultId == Decimal(rp.response.v["stationSearchResults"].v[1].v["id"].v)

\* C25: a successful get_station_report performs exactly two requests in
\* order: the station search by WIGOS identifier, then one report request
\* addressed by the internal id of the first search result, to wmd/download
\* when the format is XML and to stationReport otherwise; an HTTP error
\* status on the second request raises instead of returning; with summary
\* set the value returned is the summary of nine fields of the fetched
\* report, otherwise the fetched report itself.
C25_TwoRequests ==
    /\ rp.pc = "returned" =>
          /\ Len(rp.requests) = 2
          /\ rp.requests[1].url = ApiUrl(rp.env) \o <<"/", "search", "/", "station">>
          /\ DOMAIN rp.requests[1].params = {"wigosId"}
          /\ rp.requests[1].params["wigosId"] = StrV(rp.identifier)
          /\ rp.requests[2].url =
                (IF rp.format = "XML"
                 THEN ApiUrl(rp.env) \o <<"/", "wmd", "/", "download", "/">>
                         \o FirstResultId
                 ELSE ApiUrl(rp.env) \o <<"/", "stations", "/", "station", "/">>
                         \o FirstResultId \o <<"/", "stationReport">>)
          /\ rp.status = 200
          /\ rp.report = rp.body
          /\ rp.report.t = (IF rp.format = "XML" THEN "xml" ELSE "dict")
          /\ rp.summary =>
                /\ rp.ret.t = "dict"
                /\ DOMAIN rp.ret.v = SummaryKeys
                /\ station = rp.report
                /\ rp.ret = result
                /\ rp.report.t = "dict" =>
                      rp.ret.v["station_name"] = rp.report.v["name"]
          /\ ~rp.summary => rp.ret = rp.report /\ pc = "idle"
    /\ (Len(rp.requests) = 2 /\ rp.status >= 400) =>
          /\ rp.pc = "raised"
          /\ rp.error = Raise("HTTPError", IntV(rp.status))
          /\ rp.ret = Unset
    /\ rp.ret # Unset => rp.pc = "returned"

\* the XML report of the first of two search results was downloaded and
\* its summary returned
C25_Witness ==
    /\ rp.pc = "returned"
    /\ rp.summary
    /\ rp.format = "XML"
    /\ rp.response = Found(2, <<12, 7>>)
    /\ Last(rp.requests[2].url) = "2"
    /\ rp.requests[2].url[Len(rp.requests[2].url) - 1] = "1"
    /\ DOMAIN rp.ret.v = SummaryKeys
    /\ rp.ret.v["facility_type"] = StrV(<<"Land (fixed)">>)

====
